---- MODULE Spec2Model ----
(***************************************************************************)
(* Model of the vibe-replay session analyzer (src/vibe_replay/analyzer.py) *)
(* and of the part of the session store it uses (store.py).                *)
(*                                                                         *)
(* Conventions                                                             *)
(*  - a summary is a sequence of one-character strings, so that lower()    *)
(*    and the substring test `kw in summary_lower` are computed;           *)
(*  - a file path "/a/b.py" is the sequence of its segments <<"a","b.py">>;*)
(*  - a timestamp is a number of seconds, a confidence a number of tenths; *)
(*  - event indices are zero-based as in the code: events[i] of the code   *)
(*    is At(events, i) here.                                               *)
(*  - a text built by an f-string is kept as the tuple of its parts, a     *)
(*    Counter as the sequence of <<key, count>> in the order the keys were *)
(*    first counted, an optional number as <<>> or <<number>>.             *)
(***************************************************************************)
EXTENDS Integers, Sequences, FiniteSets, TLC

VARIABLES
    store_events,     \* session id -> events.jsonl of the session (sequence of lines)
    store_metadata,   \* session id -> the text of metadata.json, or NoRecord
    store_index,      \* session id -> the row of the session in index.db, or NoRecord
    store_replay,     \* session id -> the text of replay.json, or NoRecord
    now,              \* the wall clock read by datetime.now()
    arg,              \* the argument of the call to an analyzer function
    ret,              \* what the call to the analyzer function returned
    runs              \* session id -> replays returned by the analyze_session calls
                      \* made since the last append to the session (the last two)

vars ==
    <<store_events, store_metadata, store_index, store_replay, now, arg, ret, runs>>

None ==
    "None"

\* None where a record is expected: a file of the store that does not exist
NoRecord ==
    [exists |-> FALSE]

\* an optional number is kept as <<>> (None) or <<number>>
NoNumber ==
    <<>>

NoRet ==
    [fn |-> "none"]

SessionIds ==
    {"s1", "s2"}

\* ------------------------------------------------------------------------
\* Generic helpers
\* ------------------------------------------------------------------------

\* events[i] with the code's zero-based index
At(s, i) ==
    s[i + 1]

Min(a, b) ==
    IF a <= b THEN a ELSE b

Range(s) ==
    {s[i] : i \in 1..Len(s)}

SeqsUpTo(S, n) ==
    UNION {[1..k -> S] : k \in 0..n}

RECURSIVE Concat(_)
Concat(ss) ==
    IF ss = <<>> THEN <<>> ELSE Head(ss) \o Concat(Tail(ss))

\* sorted(set(xs)) for a list of integers
RECURSIVE SortedSet(_)
SortedSet(S) ==
    IF S = {} THEN <<>>
    ELSE LET m == CHOOSE x \in S : \A y \in S : x <= y
         IN <<m>> \o SortedSet(S \ {m})

\* ------------------------------------------------------------------------
\* models.py
\* ------------------------------------------------------------------------

EventType ==
    {"tool_call", "code_change", "decision", "error", "user_message",
     "session_start", "session_end", "notification"}

SessionPhase ==
    {"exploration", "implementation", "debugging", "testing", "refactoring",
     "configuration", "documentation", "unknown"}

\* Event.tool_name is None for a non-tool event; the analyzer only ever reads
\* `event.tool_name or ""`, `if e.tool_name` and `event.tool_name == "Bash"`.
NoTool ==
    ""

Event(ts, sid, etype, tool, summary, files) ==
    [timestamp |-> ts, session_id |-> sid, event_type |-> etype,
     tool_name |-> tool, summary |-> summary, files_affected |-> files]

TimelinePhase(phase, si, ei, st, et, cnt, keys) ==
    [phase |-> phase, start_index |-> si, end_index |-> ei,
     start_time |-> st, end_time |-> et, event_count |-> cnt,
     summary |-> <<>>, key_events |-> keys]

Insight(itype, title, description, supporting, confidence) ==
    [insight_type |-> itype, title |-> title, description |-> description,
     supporting_events |-> supporting, confidence |-> confidence]

\* ------------------------------------------------------------------------
\* str.lower() and the substring test
\* ------------------------------------------------------------------------

\* the lower-case letter of every upper-case letter
LOWER ==
    [A |-> "a", B |-> "b", C |-> "c", D |-> "d", E |-> "e", F |-> "f",
     G |-> "g", H |-> "h", I |-> "i", J |-> "j", K |-> "k", L |-> "l",
     M |-> "m", N |-> "n", O |-> "o", P |-> "p", Q |-> "q", R |-> "r",
     S |-> "s", T |-> "t", U |-> "u", V |-> "v", W |-> "w", X |-> "x",
     Y |-> "y", Z |-> "z"]

LowerChar(c) ==
    IF c \in DOMAIN LOWER THEN LOWER[c] ELSE c

\* summary.lower()
RECURSIVE Lower(_)
Lower(s) ==
    IF s = <<>> THEN <<>> ELSE <<LowerChar(Head(s))>> \o Lower(Tail(s))

\* kw in s
Contains(s, kw) ==
    \E k \in 0..(Len(s) - Len(kw)) : \A j \in 1..Len(kw) : s[k + j] = kw[j]

\* any(kw in s for kw in kws)
AnyKeyword(s, kws) ==
    \E kw \in kws : Contains(s, kw)

\* ------------------------------------------------------------------------
\* analyzer.py: tables
\* ------------------------------------------------------------------------

\* tool -> candidate phases, in the order of the source
PHASE_INDICATORS ==
    [Read |-> <<"exploration">>,
     Glob |-> <<"exploration">>,
     Grep |-> <<"exploration", "debugging">>,
     WebSearch |-> <<"exploration">>,
     WebFetch |-> <<"exploration">>,
     Edit |-> <<"implementation", "refactoring">>,
     Write |-> <<"implementation", "configuration">>,
     Bash |-> <<"testing", "debugging", "configuration">>,
     NotebookEdit |-> <<"implementation">>,
     Task |-> <<"implementation">>]

DEBUG_KEYWORDS ==
    { <<"e", "r", "r", "o", "r">>, <<"f", "a", "i", "l">>, <<"b", "u", "g">>,
      <<"f", "i", "x">>, <<"d", "e", "b", "u", "g">>,
      <<"t", "r", "a", "c", "e", "b", "a", "c", "k">>,
      <<"e", "x", "c", "e", "p", "t", "i", "o", "n">>,
      <<"b", "r", "o", "k", "e", "n">>, <<"c", "r", "a", "s", "h">>,
      <<"i", "s", "s", "u", "e">>, <<"w", "r", "o", "n", "g">>,
      <<"p", "r", "o", "b", "l", "e", "m">>,
      <<"u", "n", "e", "x", "p", "e", "c", "t", "e", "d">> }

TEST_KEYWORDS ==
    { <<"t", "e", "s", "t">>, <<"p", "y", "t", "e", "s", "t">>,
      <<"a", "s", "s", "e", "r", "t">>, <<"s", "p", "e", "c">>,
      <<"c", "o", "v", "e", "r", "a", "g", "e">>, <<"m", "o", "c", "k">>,
      <<"f", "i", "x", "t", "u", "r", "e">> }

CONFIG_KEYWORDS ==
    { <<"c", "o", "n", "f", "i", "g">>, <<"s", "e", "t", "u", "p">>,
      <<"i", "n", "s", "t", "a", "l", "l">>,
      <<"d", "e", "p", "e", "n", "d", "e", "n", "c", "y">>,
      <<"p", "y", "p", "r", "o", "j", "e", "c", "t">>,
      <<"p", "a", "c", "k", "a", "g", "e">>,
      <<"r", "e", "q", "u", "i", "r", "e", "m", "e", "n", "t", "s">>,
      <<"e", "n", "v">>, <<"d", "o", "c", "k", "e", "r">>,
      <<"d", "e", "p", "l", "o", "y">> }

DOC_KEYWORDS ==
    { <<"r", "e", "a", "d", "m", "e">>, <<"d", "o", "c">>,
      <<"c", "o", "m", "m", "e", "n", "t">>,
      <<"d", "o", "c", "s", "t", "r", "i", "n", "g">> }

\* the keywords of _identify_turning_points
TURNING_KEYWORDS ==
    { <<"t", "e", "s", "t">>, <<"p", "y", "t", "e", "s", "t">>,
      <<"n", "p", "m", " ", "t", "e", "s", "t">> }

\* ------------------------------------------------------------------------
\* analyzer.py: _detect_phase_from_event
\* ------------------------------------------------------------------------

\* a classifier that lets the tool table win over the keywords
detect_phase_tool_first(event) ==
    LET summary_lower == Lower(event.summary)
        tool == event.tool_name
    IN  IF tool \in DOMAIN PHASE_INDICATORS THEN PHASE_INDICATORS[tool][1]
        ELSE IF AnyKeyword(summary_lower, DEBUG_KEYWORDS) THEN "debugging"
        ELSE IF AnyKeyword(summary_lower, TEST_KEYWORDS) THEN "testing"
        ELSE IF AnyKeyword(summary_lower, CONFIG_KEYWORDS) THEN "configuration"
        ELSE IF AnyKeyword(summary_lower, DOC_KEYWORDS) THEN "documentation"
        ELSE "unknown"

\* a classifier that takes the last phase of the row of the tool
detect_phase_last_of_row(event) ==
    LET summary_lower == Lower(event.summary)
        tool == event.tool_name
    IN  IF AnyKeyword(summary_lower, DEBUG_KEYWORDS) THEN "debugging"
        ELSE IF AnyKeyword(summary_lower, TEST_KEYWORDS) THEN "testing"
        ELSE IF AnyKeyword(summary_lower, CONFIG_KEYWORDS) THEN "configuration"
        ELSE IF AnyKeyword(summary_lower, DOC_KEYWORDS) THEN "documentation"
        ELSE IF tool \in DOMAIN PHASE_INDICATORS
             THEN PHASE_INDICATORS[tool][Len(PHASE_INDICATORS[tool])]
        ELSE "unknown"

detect_phase_from_event(event) ==
    LET summary_lower == Lower(event.summary)
        tool == event.tool_name
    IN  IF AnyKeyword(summary_lower, DEBUG_KEYWORDS) THEN "debugging"
        ELSE IF AnyKeyword(summary_lower, TEST_KEYWORDS) THEN "testing"
        ELSE IF AnyKeyword(summary_lower, CONFIG_KEYWORDS) THEN "configuration"
        ELSE IF AnyKeyword(summary_lower, DOC_KEYWORDS) THEN "documentation"
        ELSE IF tool \in DOMAIN PHASE_INDICATORS THEN PHASE_INDICATORS[tool][1]
        ELSE "unknown"

\* ------------------------------------------------------------------------
\* analyzer.py: _identify_phase_runs
\* ------------------------------------------------------------------------

\* absorb a run (step 1): fewer than 3 events, or less than 2 minutes
ABSORB_MIN_EVENTS ==
    3

ABSORB_MIN_SECONDS ==
    120

\* cap of the number of phases (step 3)
LONG_SESSION_SECONDS ==
    3600

MAX_PHASES_LONG ==
    8

MAX_PHASES_SHORT ==
    6

\* how far the blip check looks: look_ahead = min(i + 3, len(phases))
LOOK_AHEAD ==
    3

\* phases = [_detect_phase_from_event(e) for e in events]
RECURSIVE EventPhases(_)
EventPhases(events) ==
    IF events = <<>> THEN <<>>
    ELSE <<detect_phase_from_event(Head(events))>> \o EventPhases(Tail(events))

\* for i in range(i, len(phases)): ... followed by the final run.
\* st = [phases, current_phase, start_idx, runs]
RECURSIVE RawRunsLoop(_, _, _)
RawRunsLoop(events, i, st) ==
    LET n == Len(events)
    IN  IF i >= n
        THEN Append(st.runs,
                    TimelinePhase(st.current_phase, st.start_idx, n - 1,
                                  At(events, st.start_idx).timestamp,
                                  events[n].timestamp,
                                  n - st.start_idx, <<>>))
        ELSE IF At(st.phases, i) # st.current_phase
        THEN LET look_ahead == Min(i + LOOK_AHEAD, n)
             IN  IF /\ look_ahead - i >= 2
                    /\ \A j \in (i + 1)..(look_ahead - 1) :
                          At(st.phases, j) = st.current_phase
                 THEN \* skip this blip
                      RawRunsLoop(events, i + 1,
                          [st EXCEPT !.phases[i + 1] = st.current_phase])
                 ELSE RawRunsLoop(events, i + 1,
                          [st EXCEPT
                             !.runs = Append(@,
                                 TimelinePhase(st.current_phase, st.start_idx, i - 1,
                                               At(events, st.start_idx).timestamp,
                                               At(events, i - 1).timestamp,
                                               i - st.start_idx, <<>>)),
                             !.current_phase = At(st.phases, i),
                             !.start_idx = i])
        ELSE RawRunsLoop(events, i + 1, st)

\* lines 97-141: the raw runs
RawRuns(events) ==
    LET phases == EventPhases(events)
    IN  RawRunsLoop(events, 1,
                    [phases |-> phases, current_phase |-> phases[1],
                     start_idx |-> 0, runs |-> <<>>])

\* an absorption that forgets to extend the previous run to the absorbed one
MergeIntoPrevKeepEnd(prev, run) ==
    TimelinePhase(prev.phase, prev.start_index, prev.end_index,
                  prev.start_time, prev.end_time,
                  prev.event_count + run.event_count,
                  prev.key_events \o run.key_events)

\* the run that replaces prev when run is merged into it (lines 151-159, 168-176)
MergeIntoPrev(prev, run) ==
    TimelinePhase(prev.phase, prev.start_index, run.end_index,
                  prev.start_time, run.end_time,
                  prev.event_count + run.event_count,
                  prev.key_events \o run.key_events)

\* an absorption that also takes the runs that just reach the two thresholds
RECURSIVE AbsorbLoopInclusive(_, _)
AbsorbLoopInclusive(rs, merged) ==
    IF rs = <<>> THEN merged
    ELSE LET run == Head(rs)
             run_duration == run.end_time - run.start_time
         IN  IF /\ merged # <<>>
                /\ (run.event_count <= ABSORB_MIN_EVENTS
                      \/ run_duration <= ABSORB_MIN_SECONDS)
             THEN AbsorbLoopInclusive(Tail(rs),
                      [merged EXCEPT ![Len(merged)] =
                          MergeIntoPrev(merged[Len(merged)], run)])
             ELSE AbsorbLoopInclusive(Tail(rs), Append(merged, run))

\* an absorption that looks at the number of events of a run only
RECURSIVE AbsorbLoopByCount(_, _)
AbsorbLoopByCount(rs, merged) ==
    IF rs = <<>> THEN merged
    ELSE LET run == Head(rs)
         IN  IF /\ merged # <<>>
                /\ run.event_count < ABSORB_MIN_EVENTS
             THEN AbsorbLoopByCount(Tail(rs),
                      [merged EXCEPT ![Len(merged)] =
                          MergeIntoPrev(merged[Len(merged)], run)])
             ELSE AbsorbLoopByCount(Tail(rs), Append(merged, run))

\* Step 1, lines 145-161
RECURSIVE AbsorbLoop(_, _)
AbsorbLoop(rs, merged) ==
    IF rs = <<>> THEN merged
    ELSE LET run == Head(rs)
             run_duration == run.end_time - run.start_time
         IN  IF /\ merged # <<>>
                /\ (run.event_count < ABSORB_MIN_EVENTS
                      \/ run_duration < ABSORB_MIN_SECONDS)
             THEN AbsorbLoop(Tail(rs),
                      [merged EXCEPT ![Len(merged)] =
                          MergeIntoPrev(merged[Len(merged)], run)])
             ELSE AbsorbLoop(Tail(rs), Append(merged, run))

Absorb(rs) ==
    AbsorbLoop(rs, <<>>)

\* Step 2, lines 164-178
RECURSIVE ConsolidateLoop(_, _)
ConsolidateLoop(merged, consolidated) ==
    IF merged = <<>> THEN consolidated
    ELSE LET run == Head(merged)
         IN  IF /\ consolidated # <<>>
                /\ consolidated[Len(consolidated)].phase = run.phase
             THEN ConsolidateLoop(Tail(merged),
                      [consolidated EXCEPT ![Len(consolidated)] =
                          MergeIntoPrev(consolidated[Len(consolidated)], run)])
             ELSE ConsolidateLoop(Tail(merged), Append(consolidated, run))

Consolidate(merged) ==
    ConsolidateLoop(merged, <<>>)

\* a cap that takes a session of exactly one hour for a long one
MaxPhasesAtLeast(consolidated) ==
    LET total_duration ==
            IF consolidated # <<>>
            THEN consolidated[Len(consolidated)].end_time - consolidated[1].start_time
            ELSE 0
    IN  IF total_duration >= LONG_SESSION_SECONDS THEN MAX_PHASES_LONG
        ELSE MAX_PHASES_SHORT

\* lines 181-184
MaxPhases(consolidated) ==
    LET total_duration ==
            IF consolidated # <<>>
            THEN consolidated[Len(consolidated)].end_time - consolidated[1].start_time
            ELSE 0
    IN  IF total_duration > LONG_SESSION_SECONDS THEN MAX_PHASES_LONG
        ELSE MAX_PHASES_SHORT

\* min(range(len(consolidated)), key=lambda i: consolidated[i].event_count):
\* the first index (zero-based) of a run with the fewest events
MinIdx(consolidated) ==
    CHOOSE i \in 0..(Len(consolidated) - 1) :
        /\ \A j \in 0..(Len(consolidated) - 1) :
              At(consolidated, i).event_count <= At(consolidated, j).event_count
        /\ \A j \in 0..(i - 1) :
              At(consolidated, j).event_count > At(consolidated, i).event_count

\* an iteration that merges with the right neighbour when both neighbours
\* have as many events
CapStepRightOnTie(consolidated) ==
    LET n == Len(consolidated)
        min_idx == MinIdx(consolidated)
        merge_with ==
            IF min_idx = 0 THEN 1
            ELSE IF min_idx = n - 1 THEN min_idx - 1
            ELSE LET left == At(consolidated, min_idx - 1).event_count
                     right == At(consolidated, min_idx + 1).event_count
                 IN  IF left < right THEN min_idx - 1 ELSE min_idx + 1
        a == Min(min_idx, merge_with)
        b == IF min_idx <= merge_with THEN merge_with ELSE min_idx
        pa == At(consolidated, a)
        pb == At(consolidated, b)
        keep_phase == IF pa.event_count >= pb.event_count THEN pa.phase ELSE pb.phase
        new == TimelinePhase(keep_phase, pa.start_index, pb.end_index,
                             pa.start_time, pb.end_time,
                             pa.event_count + pb.event_count,
                             pa.key_events \o pb.key_events)
    IN  [k \in 1..(n - 1) |->
            IF k = a + 1 THEN new
            ELSE IF k < b + 1 THEN consolidated[k]
            ELSE consolidated[k + 1]]

\* one iteration of the while loop, lines 186-211
CapStep(consolidated) ==
    LET n == Len(consolidated)
        min_idx == MinIdx(consolidated)
        merge_with ==
            IF min_idx = 0 THEN 1
            ELSE IF min_idx = n - 1 THEN min_idx - 1
            ELSE LET left == At(consolidated, min_idx - 1).event_count
                     right == At(consolidated, min_idx + 1).event_count
                 IN  IF left <= right THEN min_idx - 1 ELSE min_idx + 1
        a == Min(min_idx, merge_with)
        b == IF min_idx <= merge_with THEN merge_with ELSE min_idx
        pa == At(consolidated, a)
        pb == At(consolidated, b)
        keep_phase == IF pa.event_count >= pb.event_count THEN pa.phase ELSE pb.phase
        new == TimelinePhase(keep_phase, pa.start_index, pb.end_index,
                             pa.start_time, pb.end_time,
                             pa.event_count + pb.event_count,
                             pa.key_events \o pb.key_events)
    IN  \* consolidated[a] = new; del consolidated[b]
        [k \in 1..(n - 1) |->
            IF k = a + 1 THEN new
            ELSE IF k < b + 1 THEN consolidated[k]
            ELSE consolidated[k + 1]]

\* while len(consolidated) > max_phases
RECURSIVE EnforceCap(_, _)
EnforceCap(consolidated, max_phases) ==
    IF Len(consolidated) > max_phases
    THEN EnforceCap(CapStep(consolidated), max_phases)
    ELSE consolidated

identify_phase_runs(events) ==
    IF events = <<>> THEN <<>>
    ELSE LET consolidated == Consolidate(Absorb(RawRuns(events)))
         IN  EnforceCap(consolidated, MaxPhases(consolidated))

\* ------------------------------------------------------------------------
\* analyzer.py: _extract_insights
\* ------------------------------------------------------------------------

\* if gap > 5 (line 293)
DETOUR_MIN_GAP ==
    5

\* if len(indices) >= 4 (line 311)
HOTSPOT_MIN_REFERENCES ==
    4

\* supporting_events=indices[:5] (line 320)
HOTSPOT_MAX_SUPPORTING ==
    5

\* if current_run >= 5 (lines 332, 335)
EXPLORATION_RUN_MIN ==
    5

\* if exploration_runs >= 2 (line 338)
EXPLORATION_RUNS_MIN ==
    2

\* total > 5 (line 374)
WRITE_HEAVY_MIN_TOTAL ==
    5

\* filepath.split('/')[-1]
BaseName(path) ==
    IF path = <<>> THEN "" ELSE path[Len(path)]

\* files_touched[f].append(i): files_touched is a dict, kept here in insertion
\* order as a sequence of [file, indices]
TouchFile(files_touched, f, i) ==
    IF \E k \in 1..Len(files_touched) : files_touched[k].file = f
    THEN LET k == CHOOSE k \in 1..Len(files_touched) : files_touched[k].file = f
         IN  [files_touched EXCEPT ![k].indices = Append(@, i)]
    ELSE Append(files_touched, [file |-> f, indices |-> <<i>>])

\* for f in event.files_affected: files_touched[f].append(i)
RECURSIVE TouchFiles(_, _, _)
TouchFiles(files_touched, files, i) ==
    IF files = <<>> THEN files_touched
    ELSE TouchFiles(TouchFile(files_touched, Head(files), i), Tail(files), i)

\* the scan of lines 277-288; st = [error_indices, fix_after_error,
\* tools_sequence, files_touched]
RECURSIVE ScanEvents(_, _, _)
ScanEvents(events, i, st) ==
    IF i >= Len(events) THEN st
    ELSE LET event == At(events, i)
             st1 == [st EXCEPT
                       !.tools_sequence = Append(@, event.tool_name),
                       !.files_touched = TouchFiles(@, event.files_affected, i)]
             st2 == IF event.event_type = "error"
                    THEN [st1 EXCEPT !.error_indices = Append(@, i)]
                    ELSE IF st1.error_indices # <<>> /\ event.event_type = "code_change"
                    THEN [st1 EXCEPT !.fix_after_error =
                             Append(@, <<st1.error_indices[Len(st1.error_indices)], i>>)]
                    ELSE st1
         IN  ScanEvents(events, i + 1, st2)

Scan(events) ==
    ScanEvents(events, 0,
               [error_indices |-> <<>>, fix_after_error |-> <<>>,
                tools_sequence |-> <<>>, files_touched |-> <<>>])

\* a detour detector that also reports a gap of exactly 5
RECURSIVE DetourInsightsAtLeast(_, _)
DetourInsightsAtLeast(events, fix_after_error) ==
    IF fix_after_error = <<>> THEN <<>>
    ELSE LET err_idx == Head(fix_after_error)[1]
             fix_idx == Head(fix_after_error)[2]
             gap == fix_idx - err_idx
             rest == DetourInsightsAtLeast(events, Tail(fix_after_error))
         IN  IF gap >= DETOUR_MIN_GAP
             THEN <<Insight("mistake", <<"Debugging detour detected">>,
                            [err_idx |-> err_idx, gap |-> gap, fix_idx |-> fix_idx,
                             error |-> At(events, err_idx).summary],
                            <<err_idx, fix_idx>>, 6)>> \o rest
             ELSE rest

\* lines 291-307
RECURSIVE DetourInsights(_, _)
DetourInsights(events, fix_after_error) ==
    IF fix_after_error = <<>> THEN <<>>
    ELSE LET err_idx == Head(fix_after_error)[1]
             fix_idx == Head(fix_after_error)[2]
             gap == fix_idx - err_idx
             rest == DetourInsights(events, Tail(fix_after_error))
         IN  IF gap > DETOUR_MIN_GAP
             THEN <<Insight("mistake", <<"Debugging detour detected">>,
                            [err_idx |-> err_idx, gap |-> gap, fix_idx |-> fix_idx,
                             error |-> At(events, err_idx).summary],
                            <<err_idx, fix_idx>>, 6)>> \o rest
             ELSE rest

\* lines 310-323
RECURSIVE HotspotInsights(_)
HotspotInsights(files_touched) ==
    IF files_touched = <<>> THEN <<>>
    ELSE LET filepath == Head(files_touched).file
             indices == Head(files_touched).indices
             rest == HotspotInsights(Tail(files_touched))
         IN  IF Len(indices) >= HOTSPOT_MIN_REFERENCES
             THEN <<Insight("pattern", <<"Hotspot file: ", BaseName(filepath)>>,
                            [filepath |-> filepath, times |-> Len(indices)],
                            SubSeq(indices, 1, Min(Len(indices), HOTSPOT_MAX_SUPPORTING)),
                            7)>> \o rest
             ELSE rest

\* a count of the exploration runs that forgets the run that reaches the end
RECURSIVE ExplorationRunsNoTrailing(_, _)
ExplorationRunsNoTrailing(tools_sequence, st) ==
    IF tools_sequence = <<>>
    THEN st.exploration_runs
    ELSE IF Head(tools_sequence) \in {"Read", "Glob", "Grep", "WebSearch"}
    THEN ExplorationRunsNoTrailing(Tail(tools_sequence),
                                   [st EXCEPT !.current_run = @ + 1])
    ELSE ExplorationRunsNoTrailing(Tail(tools_sequence),
             [exploration_runs |->
                  IF st.current_run >= EXPLORATION_RUN_MIN
                  THEN st.exploration_runs + 1 ELSE st.exploration_runs,
              current_run |-> 0])

\* lines 326-336; st = [exploration_runs, current_run]
RECURSIVE ExplorationRuns(_, _)
ExplorationRuns(tools_sequence, st) ==
    IF tools_sequence = <<>>
    THEN IF st.current_run >= EXPLORATION_RUN_MIN
         THEN st.exploration_runs + 1 ELSE st.exploration_runs
    ELSE IF Head(tools_sequence) \in {"Read", "Glob", "Grep", "WebSearch"}
    THEN ExplorationRuns(Tail(tools_sequence),
                         [st EXCEPT !.current_run = @ + 1])
    ELSE ExplorationRuns(Tail(tools_sequence),
             [exploration_runs |->
                  IF st.current_run >= EXPLORATION_RUN_MIN
                  THEN st.exploration_runs + 1 ELSE st.exploration_runs,
              current_run |-> 0])

\* lines 326-350
ExplorationInsights(tools_sequence) ==
    LET exploration_runs ==
            ExplorationRuns(tools_sequence, [exploration_runs |-> 0, current_run |-> 0])
    IN  IF exploration_runs >= EXPLORATION_RUNS_MIN
        THEN <<Insight("pattern", <<"Multiple exploration phases">>,
                       [exploration_runs |-> exploration_runs], <<>>, 7)>>
        ELSE <<>>

\* tool_counts.get(tool, 0) for tool_counts = Counter(t for t in tools_sequence if t)
ToolCount(tools_sequence, tool) ==
    Cardinality({k \in 1..Len(tools_sequence) : tools_sequence[k] = tool})

\* the ratio detectors with a read-like share of 0.4 in place of 0.6: a
\* share that the two detectors can reach together
RatioInsightsLowerReadShare(tools_sequence) ==
    LET total == Cardinality({k \in 1..Len(tools_sequence) :
                                 tools_sequence[k] # NoTool})
        read_tools == ToolCount(tools_sequence, "Read")
                        + ToolCount(tools_sequence, "Grep")
                        + ToolCount(tools_sequence, "Glob")
        write_tools == ToolCount(tools_sequence, "Edit")
                         + ToolCount(tools_sequence, "Write")
    IN  IF total > 0
        THEN (IF 10 * read_tools > 4 * total
              THEN <<Insight("pattern", <<"Read-heavy session">>,
                             [count |-> read_tools, total |-> total,
                              percent |-> (read_tools * 100) \div total],
                             <<>>, 8)>>
              ELSE <<>>)
             \o
             (IF total > WRITE_HEAVY_MIN_TOTAL /\ 10 * write_tools > 5 * total
              THEN <<Insight("pattern", <<"Implementation-heavy session">>,
                             [count |-> write_tools, total |-> total,
                              percent |-> (write_tools * 100) \div total],
                             <<>>, 8)>>
              ELSE <<>>)
        ELSE <<>>

\* lines 353-386. The code compares the float read_tools / total with 0.6 and
\* write_tools / total with 0.5; for these sizes that is the comparison of
\* the exact quotients.
RatioInsights(tools_sequence) ==
    LET total == Cardinality({k \in 1..Len(tools_sequence) :
                                 tools_sequence[k] # NoTool})
        read_tools == ToolCount(tools_sequence, "Read")
                        + ToolCount(tools_sequence, "Grep")
                        + ToolCount(tools_sequence, "Glob")
        write_tools == ToolCount(tools_sequence, "Edit")
                         + ToolCount(tools_sequence, "Write")
    IN  IF total > 0
        THEN (IF 10 * read_tools > 6 * total
              THEN <<Insight("pattern", <<"Read-heavy session">>,
                             [count |-> read_tools, total |-> total,
                              percent |-> (read_tools * 100) \div total],
                             <<>>, 8)>>
              ELSE <<>>)
             \o
             (IF total > WRITE_HEAVY_MIN_TOTAL /\ 10 * write_tools > 5 * total
              THEN <<Insight("pattern", <<"Implementation-heavy session">>,
                             [count |-> write_tools, total |-> total,
                              percent |-> (write_tools * 100) \div total],
                             <<>>, 8)>>
              ELSE <<>>)
        ELSE <<>>

extract_insights(events) ==
    LET st == Scan(events)
    IN  DetourInsights(events, st.fix_after_error)
          \o HotspotInsights(st.files_touched)
          \o ExplorationInsights(st.tools_sequence)
          \o RatioInsights(st.tools_sequence)

\* ------------------------------------------------------------------------
\* analyzer.py: _identify_decision_points, _identify_turning_points
\* ------------------------------------------------------------------------

\* prev_files: the files of events[:i]
PrevFiles(events, i) ==
    UNION {Range(events[k].files_affected) : k \in 1..i}

\* the loop of lines 398-414: the list decision_indices
RECURSIVE DecisionIndices(_, _)
DecisionIndices(events, i) ==
    IF i >= Len(events) THEN <<>>
    ELSE LET event == At(events, i)
             direction ==
                 IF i > 0
                 THEN LET prev_phase == detect_phase_from_event(At(events, i - 1))
                          curr_phase == detect_phase_from_event(event)
                      IN  IF prev_phase # curr_phase /\ curr_phase = "implementation"
                          THEN <<i>> ELSE <<>>
                 ELSE <<>>
             first_change ==
                 IF event.event_type = "code_change" /\ event.files_affected # <<>>
                 THEN LET prev_files == PrevFiles(events, i)
                          new_files == SelectSeq(event.files_affected,
                                                 LAMBDA f : f \notin prev_files)
                      IN  IF new_files # <<>> THEN <<i>> ELSE <<>>
                 ELSE <<>>
         IN  direction \o first_change \o DecisionIndices(events, i + 1)

\* decision points returned as collected, without sorted(set(...))
identify_decision_points_list(events) ==
    DecisionIndices(events, 0)

identify_decision_points(events) ==
    SortedSet(Range(DecisionIndices(events, 0)))

\* the loop of lines 427-436: the list turning_points
RECURSIVE TurningIndices(_, _)
TurningIndices(events, i) ==
    IF i >= Len(events) THEN <<>>
    ELSE LET event == At(events, i)
             error == IF event.event_type = "error" THEN <<i>> ELSE <<>>
             tests ==
                 IF /\ event.tool_name = "Bash"
                    /\ AnyKeyword(Lower(event.summary), TURNING_KEYWORDS)
                 THEN <<i>> ELSE <<>>
         IN  error \o tests \o TurningIndices(events, i + 1)

\* turning points returned as collected, without sorted(set(...))
identify_turning_points_list(events) ==
    TurningIndices(events, 0)

identify_turning_points(events) ==
    SortedSet(Range(TurningIndices(events, 0)))

\* ------------------------------------------------------------------------
\* analyzer.py: _generate_phase_summaries
\* ------------------------------------------------------------------------

\* key_indices[:10] (line 259)
KEY_EVENTS_MAX ==
    10

\* the files of events[start_index : end_index + 1]
PhaseFiles(events, phase) ==
    UNION {Range(At(events, i).files_affected) :
              i \in phase.start_index..phase.end_index}

\* the parts of the one-line description of a phase, lines 231-247
PhaseSummary(phase, events) ==
    LET files == PhaseFiles(events, phase)
        greps == Cardinality({i \in phase.start_index..phase.end_index :
                                 At(events, i).tool_name = "Grep"})
        parts ==
            CASE phase.phase = "exploration" ->
                   <<<<"Explored", Cardinality(files), "file(s)">>>>
                   \o (IF greps > 0 THEN <<<<"searched", greps, "time(s)">>>> ELSE <<>>)
              [] phase.phase = "implementation" ->
                   <<<<"Modified", Cardinality(files), "file(s)">>>>
              [] phase.phase = "debugging" -> <<<<"Investigated and fixed issues">>>>
              [] phase.phase = "testing" -> <<<<"Ran tests">>>>
              [] phase.phase = "configuration" -> <<<<"Set up configuration">>>>
              [] phase.phase = "documentation" -> <<<<"Updated documentation">>>>
              [] OTHER -> <<>>
    IN  parts \o <<<<phase.event_count, "event(s)">>>>

\* the indices of the code_change and error events of the phase, lines 250-254
KeyIndices(phase, events) ==
    SortedSet({i \in phase.start_index..phase.end_index :
                  At(events, i).event_type \in {"code_change", "error"}})

\* phase summaries that keep every key index of a phase
generate_phase_summaries_uncapped(phases, events) ==
    [k \in 1..Len(phases) |->
        [phases[k] EXCEPT
            !.summary = PhaseSummary(phases[k], events),
            !.key_events = KeyIndices(phases[k], events)]]

generate_phase_summaries(phases, events) ==
    [k \in 1..Len(phases) |->
        [phases[k] EXCEPT
            !.summary = PhaseSummary(phases[k], events),
            !.key_events = SubSeq(KeyIndices(phases[k], events), 1,
                                  Min(Len(KeyIndices(phases[k], events)),
                                      KEY_EVENTS_MAX))]]

\* ------------------------------------------------------------------------
\* analyzer.py: _compute_statistics, _format_duration
\* ------------------------------------------------------------------------

\* a Counter, kept as the sequence of <<key, count>> in the order the keys
\* were first counted
RECURSIVE CounterOf(_, _)
CounterOf(keys, counter) ==
    IF keys = <<>> THEN counter
    ELSE LET key == Head(keys)
         IN  IF \E k \in 1..Len(counter) : counter[k][1] = key
             THEN LET k == CHOOSE k \in 1..Len(counter) : counter[k][1] = key
                  IN  CounterOf(Tail(keys), [counter EXCEPT ![k][2] = @ + 1])
             ELSE CounterOf(Tail(keys), Append(counter, <<key, 1>>))

\* Counter(e.tool_name for e in events if e.tool_name)
ToolCounter(events) ==
    CounterOf(SelectSeq([k \in 1..Len(events) |-> events[k].tool_name],
                        LAMBDA t : t # NoTool), <<>>)

\* insert one <<key, count>> behind every entry counted at least as often
RECURSIVE InsertByCount(_, _)
InsertByCount(sorted, entry) ==
    IF sorted = <<>> THEN <<entry>>
    ELSE IF Head(sorted)[2] >= entry[2]
    THEN <<Head(sorted)>> \o InsertByCount(Tail(sorted), entry)
    ELSE <<entry>> \o sorted

\* Counter.most_common(): by decreasing count, ties in the order first counted
RECURSIVE MostCommonLoop(_, _)
MostCommonLoop(counter, sorted) ==
    IF counter = <<>> THEN sorted
    ELSE MostCommonLoop(Tail(counter), InsertByCount(sorted, Head(counter)))

MostCommon(counter) ==
    MostCommonLoop(counter, <<>>)

\* the count of key in a Counter: counter.get(key, 0)
CounterGet(counter, key) ==
    IF \E k \in 1..Len(counter) : counter[k][1] = key
    THEN counter[CHOOSE k \in 1..Len(counter) : counter[k][1] = key][2]
    ELSE 0

\* the paths the model knows, in the order of sorted()
SortedPaths ==
    << <<"home", "dev", "vibe", "main.py">>,
       <<"lib", "hot.py">>,
       <<"project", "hot.py">> >>

\* sorted(all_files)
SortedFiles(files) ==
    SelectSeq(SortedPaths, LAMBDA f : f \in files)

AllFiles(events) ==
    UNION {Range(events[k].files_affected) : k \in 1..Len(events)}

\* a formatting that takes the thresholds as the last values of the shorter form
format_duration_inclusive(seconds) ==
    IF seconds <= 60 THEN <<seconds, "s">>
    ELSE IF seconds <= 3600 THEN <<seconds \div 60, "m ", seconds % 60, "s">>
    ELSE <<seconds \div 3600, "h ", (seconds % 3600) \div 60, "m">>

\* lines 469-478, for a whole number of seconds: the text is kept as its parts
format_duration(seconds) ==
    IF seconds < 60 THEN <<seconds, "s">>
    ELSE IF seconds < 3600 THEN <<seconds \div 60, "m ", seconds % 60, "s">>
    ELSE <<seconds \div 3600, "h ", (seconds % 3600) \div 60, "m">>

\* statistics that take the number of events from the metadata they are given
compute_statistics_by_metadata(events, metadata) ==
    LET tool_counts == ToolCounter(events)
        event_type_counts ==
            CounterOf([k \in 1..Len(events) |-> events[k].event_type], <<>>)
        all_files == AllFiles(events)
        duration == IF events # <<>>
                    THEN events[Len(events)].timestamp - events[1].timestamp
                    ELSE 0
    IN  [total_events |-> metadata.event_count,
         duration_seconds |-> duration,
         duration_human |-> format_duration(duration),
         tools_used |-> MostCommon(tool_counts),
         event_types |-> event_type_counts,
         files_affected |-> SortedFiles(all_files),
         file_count |-> Cardinality(all_files),
         most_used_tool |-> IF tool_counts # <<>>
                            THEN MostCommon(tool_counts)[1][1] ELSE None,
         code_changes |-> CounterGet(event_type_counts, "code_change"),
         errors_encountered |-> CounterGet(event_type_counts, "error")]

\* lines 441-466
compute_statistics(events, metadata) ==
    LET tool_counts == ToolCounter(events)
        event_type_counts ==
            CounterOf([k \in 1..Len(events) |-> events[k].event_type], <<>>)
        all_files == AllFiles(events)
        duration == IF events # <<>>
                    THEN events[Len(events)].timestamp - events[1].timestamp
                    ELSE 0
    IN  [total_events |-> Len(events),
         duration_seconds |-> duration,
         duration_human |-> format_duration(duration),
         tools_used |-> MostCommon(tool_counts),
         event_types |-> event_type_counts,
         files_affected |-> SortedFiles(all_files),
         file_count |-> Cardinality(all_files),
         most_used_tool |-> IF tool_counts # <<>>
                            THEN MostCommon(tool_counts)[1][1] ELSE None,
         code_changes |-> CounterGet(event_type_counts, "code_change"),
         errors_encountered |-> CounterGet(event_type_counts, "error")]

\* ------------------------------------------------------------------------
\* analyzer.py: _detect_project_name
\* ------------------------------------------------------------------------

SKIP_DIRS ==
    {"", "Users", "home", "root", "var", "tmp", "etc", "opt", "usr",
     "src", "lib", "bin", "projects", "repos", "code", "workspace"}

\* part.startswith("."), for the path segments the model knows
StartsWithDot(part) ==
    part \in {".git", ".venv", ".config"}

\* if count >= 2 or len(all_paths) < 5 (line 518)
PROJECT_MIN_COUNT ==
    2

PROJECT_FEW_PATHS ==
    5

\* the walk of lines 504-512 over the parts of one path: the first part, from
\* index i on, that is no generic directory, no hidden one and not one of the
\* first two; <<>> when there is none
RECURSIVE ProjectPart(_, _)
ProjectPart(parts, i) ==
    IF i >= Len(parts) THEN <<>>
    ELSE IF At(parts, i) \in SKIP_DIRS \/ StartsWithDot(At(parts, i))
    THEN ProjectPart(parts, i + 1)
    ELSE IF i <= 1 THEN ProjectPart(parts, i + 1)
    ELSE <<At(parts, i)>>

\* all_paths: every path of every event, in order, repeated as often as listed
AllPaths(events) ==
    Concat([k \in 1..Len(events) |-> events[k].files_affected])

detect_project_name(events) ==
    LET all_paths == AllPaths(events)
        project_counts ==
            CounterOf(Concat([k \in 1..Len(all_paths) |->
                                 ProjectPart(all_paths[k], 0)]), <<>>)
    IN  IF all_paths = <<>> THEN ""
        ELSE IF project_counts # <<>>
                /\ (MostCommon(project_counts)[1][2] >= PROJECT_MIN_COUNT
                      \/ Len(all_paths) < PROJECT_FEW_PATHS)
        THEN MostCommon(project_counts)[1][1]
        ELSE ""

\* ------------------------------------------------------------------------
\* analyzer.py: _generate_session_summary
\* ------------------------------------------------------------------------

\* [...][:3] (line 641)
SHORT_FILES_MAX ==
    3

\* if error_count >= 3 (line 688)
SUMMARY_MIN_ERRORS ==
    3

\* the orders in which a set can be iterated
Orders(S) ==
    {f \in [1..Cardinality(S) -> S] : \A i, j \in 1..Cardinality(S) : f[i] = f[j] => i = j}

\* short_files of a phase: the base names of the first 3 files of the set
\* phase_files, in the order the set is iterated. That order depends on the
\* hashes of the paths, so every order is a possible outcome.
ShortFiles(events, phase) ==
    {[k \in 1..Min(Len(order), SHORT_FILES_MAX) |-> BaseName(order[k])] :
        order \in Orders(PhaseFiles(events, phase))}

\* the activity phrases a phase can give, lines 643-665: none for unknown
Activities(events, phase) ==
    CASE phase.phase = "exploration" ->
           {<<IF sf # <<>> THEN <<"explored", sf>>
              ELSE <<"explored the codebase">>>> : sf \in ShortFiles(events, phase)}
      [] phase.phase = "implementation" ->
           {<<IF sf # <<>> THEN <<"built", sf>>
              ELSE <<"implemented new code">>>> : sf \in ShortFiles(events, phase)}
      [] phase.phase = "debugging" -> {<<<<"debugged issues">>>>}
      [] phase.phase = "testing" -> {<<<<"ran tests">>>>}
      [] phase.phase = "configuration" ->
           {<<IF sf # <<>> THEN <<"configured", sf>>
              ELSE <<"set up configuration">>>> : sf \in ShortFiles(events, phase)}
      [] phase.phase = "refactoring" -> {<<<<"refactored code">>>>}
      [] phase.phase = "documentation" -> {<<<<"updated documentation">>>>}
      [] OTHER -> {<<>>}

\* the lists `activities` the loop over the phases can build
RECURSIVE ActivityLists(_, _)
ActivityLists(events, phases) ==
    IF phases = <<>> THEN {<<>>}
    ELSE {a \o rest : a \in Activities(events, Head(phases)),
                      rest \in ActivityLists(events, Tail(phases))}

\* lines 668-673: drop the repeated phrases, keep the first of each
RECURSIVE Unique(_, _)
Unique(activities, unique_activities) ==
    IF activities = <<>> THEN unique_activities
    ELSE IF Head(activities) \in Range(unique_activities)
    THEN Unique(Tail(activities), unique_activities)
    ELSE Unique(Tail(activities), Append(unique_activities, Head(activities)))

\* lines 676-689: the narrative, kept as its parts: how the phrases are
\* joined, the phrases, and the number of errors when it is told
Narrative(events, activities) ==
    LET unique_activities == Unique(activities, <<>>)
        error_count == Cardinality({k \in 1..Len(events) :
                                       events[k].event_type = "error"})
    IN  [phrases |-> IF unique_activities = <<>>
                     THEN <<<<"worked on files">>>> ELSE unique_activities,
         joined |-> IF Len(unique_activities) <= 1 THEN "alone"
                    ELSE IF Len(unique_activities) = 2 THEN ", then "
                    ELSE ", ... , and ",
         errors |-> IF error_count >= SUMMARY_MIN_ERRORS THEN error_count ELSE 0]

\* the summaries _generate_session_summary can return for non-empty events
generate_session_summary(events, phases) ==
    {Narrative(events, activities) : activities \in ActivityLists(events, phases)}

\* ------------------------------------------------------------------------
\* store.py: the calls analyze_session makes
\* ------------------------------------------------------------------------

\* SessionMetadata.summary == "": the narrative of no phrase
NoSummary ==
    [phrases |-> <<>>, joined |-> "alone", errors |-> 0]

\* datetime.isoformat() and datetime.fromisoformat(): the text of a time
isoformat(t) ==
    <<"iso", t>>

fromisoformat(text) ==
    text[2]

\* a text that is no JSON document of the model it is read as; the text of a
\* document is the record [json |-> document]
Garbage ==
    [garbage |-> TRUE]

\* a file content or a line of bytes that are no text in the encoding of open()
Undecodable ==
    [undecodable |-> TRUE]

\* model_validate_json(text) does not raise
Validates(text) ==
    "json" \in DOMAIN text

\* Event.model_dump_jsonl: the line of the event, its time written as text
EventDump(event) ==
    [json |-> [event EXCEPT !.timestamp = isoformat(@)]]

\* the JSON of a SessionMetadata and the SessionMetadata of that JSON: the
\* times are written as text, an end_time of None as null
MetadataJson(metadata) ==
    [metadata EXCEPT
        !.start_time = isoformat(@),
        !.end_time = IF @ = NoNumber THEN NoNumber ELSE <<isoformat(@[1])>>]

MetadataOfJson(json) ==
    [json EXCEPT
        !.start_time = fromisoformat(@),
        !.end_time = IF @ = NoNumber THEN NoNumber ELSE <<fromisoformat(@[1])>>]

\* the same for the phases of a timeline
RECURSIVE PhasesJson(_)
PhasesJson(timeline) ==
    IF timeline = <<>> THEN <<>>
    ELSE <<[Head(timeline) EXCEPT !.start_time = isoformat(@),
                                  !.end_time = isoformat(@)]>>
         \o PhasesJson(Tail(timeline))

RECURSIVE PhasesOfJson(_)
PhasesOfJson(json) ==
    IF json = <<>> THEN <<>>
    ELSE <<[Head(json) EXCEPT !.start_time = fromisoformat(@),
                              !.end_time = fromisoformat(@)]>>
         \o PhasesOfJson(Tail(json))

\* SessionReplay.model_dump_json and SessionReplay.model_validate_json
ReplayDump(replay) ==
    [json |-> [replay EXCEPT !.metadata = MetadataJson(@),
                             !.timeline = PhasesJson(@)]]

ReplayValidate(text) ==
    [text.json EXCEPT !.metadata = MetadataOfJson(@),
                      !.timeline = PhasesOfJson(@)]

\* store.py get_events: the events of the lines that parse, in their order
RECURSIVE ParsedEvents(_)
ParsedEvents(lines) ==
    IF lines = <<>> THEN <<>>
    ELSE (IF Validates(Head(lines))
          THEN <<[Head(lines).json EXCEPT !.timestamp = fromisoformat(@)]>>
          ELSE <<>>)
         \o ParsedEvents(Tail(lines))

get_events(session_id) ==
    ParsedEvents(store_events[session_id])

\* store.py lines 124-126: the lines are decoded as the file is iterated,
\* outside the try block, so bytes that are no text raise UnicodeDecodeError
GetEventsRaises(session_id) ==
    \E k \in DOMAIN store_events[session_id] :
        store_events[session_id][k] = Undecodable

\* store.py get_metadata: None when the file is missing or does not parse
get_metadata(session_id) ==
    IF store_metadata[session_id] # NoRecord /\ Validates(store_metadata[session_id])
    THEN MetadataOfJson(store_metadata[session_id].json)
    ELSE NoRecord

\* store.py get_replay: None when the file is missing or does not parse
get_replay(session_id) ==
    IF store_replay[session_id] # NoRecord /\ Validates(store_replay[session_id])
    THEN ReplayValidate(store_replay[session_id])
    ELSE NoRecord

\* ------------------------------------------------------------------------
\* analyzer.py: analyze_session
\* ------------------------------------------------------------------------

\* a synthesized metadata that takes the present time as the end of a session
\* without events
SynthesizedMetadataEnded(session_id, events) ==
    [session_id |-> session_id,
     project |-> "",
     project_path |-> "",
     start_time |-> IF events # <<>> THEN events[1].timestamp ELSE now,
     end_time |-> IF events # <<>> THEN <<events[Len(events)].timestamp>>
                  ELSE <<now>>,
     duration_seconds |-> NoNumber,
     event_count |-> Len(events),
     summary |-> NoSummary,
     tags |-> <<>>,
     files_modified |-> <<>>,
     tools_used |-> <<>>]

\* lines 539-546: the metadata generated from the events
SynthesizedMetadata(session_id, events) ==
    [session_id |-> session_id,
     project |-> "",
     project_path |-> "",
     start_time |-> IF events # <<>> THEN events[1].timestamp ELSE now,
     end_time |-> IF events # <<>> THEN <<events[Len(events)].timestamp>>
                  ELSE NoNumber,
     duration_seconds |-> NoNumber,
     event_count |-> Len(events),
     summary |-> NoSummary,
     tags |-> <<>>,
     files_modified |-> <<>>,
     tools_used |-> <<>>]

\* an update of the metadata that keeps the event_count it was given
UpdatedMetadataKeepCount(metadata, events, stats) ==
    [metadata EXCEPT
        !.end_time = IF events # <<>> THEN <<events[Len(events)].timestamp>>
                     ELSE metadata.end_time,
        !.duration_seconds = <<stats.duration_seconds>>,
        !.files_modified = SortedFiles(AllFiles(events)),
        !.tools_used = ToolCounter(events)]

\* an update of the metadata that adds the events to the count it was given
UpdatedMetadataAddCount(metadata, events, stats) ==
    LET updated ==
            [metadata EXCEPT
                !.event_count = @ + Len(events),
                !.end_time = IF events # <<>> THEN <<events[Len(events)].timestamp>>
                             ELSE metadata.end_time,
                !.duration_seconds = <<stats.duration_seconds>>,
                !.files_modified = SortedFiles(AllFiles(events)),
                !.tools_used = ToolCounter(events)]
        detected == detect_project_name(events)
    IN  IF updated.project = "" /\ events # <<>> /\ detected # ""
        THEN [updated EXCEPT !.project = detected]
        ELSE updated

\* lines 570-584: the metadata updated with the computed aggregates and the
\* detected project name
UpdatedMetadata(metadata, events, stats) ==
    LET updated ==
            [metadata EXCEPT
                !.event_count = Len(events),
                !.end_time = IF events # <<>> THEN <<events[Len(events)].timestamp>>
                             ELSE metadata.end_time,
                !.duration_seconds = <<stats.duration_seconds>>,
                !.files_modified = SortedFiles(AllFiles(events)),
                !.tools_used = ToolCounter(events)]
        detected == detect_project_name(events)
    IN  IF updated.project = "" /\ events # <<>> /\ detected # ""
        THEN [updated EXCEPT !.project = detected]
        ELSE updated

\* summaries generated whatever summary the metadata carries
SummariesAlwaysGenerated(metadata, events, phases) ==
    IF events # <<>>
    THEN generate_session_summary(events, phases)
    ELSE {metadata.summary}

\* lines 586-590: the summaries the metadata can leave with: a generated one
\* when it carries none and there are events, else the one it carries
Summaries(metadata, events, phases) ==
    IF metadata.summary = NoSummary /\ events # <<>>
    THEN generate_session_summary(events, phases)
    ELSE {metadata.summary}

\* the replays analyze_session can build, store and return for a session
\* whose stored events and metadata are given: one for every summary that can
\* be generated
AnalyzedReplays(session_id, events, stored_metadata) ==
    LET metadata0 == IF stored_metadata = NoRecord
                     THEN SynthesizedMetadata(session_id, events)
                     ELSE stored_metadata
        phases == generate_phase_summaries(identify_phase_runs(events), events)
        insights == extract_insights(events)
        decision_points == identify_decision_points(events)
        turning_points == identify_turning_points(events)
        stats == compute_statistics(events, metadata0)
        metadata1 == UpdatedMetadata(metadata0, events, stats)
        summaries == Summaries(metadata1, events, phases)
    IN  {[metadata |-> [metadata1 EXCEPT !.summary = summary],
          timeline |-> phases,
          insights |-> insights,
          key_decision_indices |-> decision_points,
          turning_point_indices |-> turning_points,
          statistics |-> stats] : summary \in summaries}

\* ------------------------------------------------------------------------
\* The store before any session was captured
\* ------------------------------------------------------------------------

EmptyStore ==
    /\ store_events = [s \in SessionIds |-> <<>>]
    /\ store_metadata = [s \in SessionIds |-> NoRecord]
    /\ store_index = [s \in SessionIds |-> NoRecord]
    /\ store_replay = [s \in SessionIds |-> NoRecord]
    /\ now = 0
    /\ runs = [s \in SessionIds |-> <<>>]

store_vars ==
    <<store_events, store_metadata, store_index, store_replay, now, runs>>

\* one call of the analyzer function fn on the argument drawn by the initial
\* state for the functions of `group`
Apply(group, fn, value) ==
    /\ arg.fn = group
    /\ ret = NoRet
    /\ ret' = [fn |-> fn, value |-> value]
    /\ UNCHANGED <<arg, store_vars>>

\* what a captured event is made of, but for its timestamp and session
Kind(etype, tool, summary, files) ==
    [event_type |-> etype, tool_name |-> tool, summary |-> summary,
     files_affected |-> files]

\* the events of the given kinds, captured one every `step` seconds
KindEvents(kinds, step) ==
    [k \in 1..Len(kinds) |->
        Event((k - 1) * step, "s1", kinds[k].event_type, kinds[k].tool_name,
              kinds[k].summary, kinds[k].files_affected)]

\* ------------------------------------------------------------------------
\* Specification of the phase classifier: _detect_phase_from_event applied
\* to one event
\* ------------------------------------------------------------------------

\* the summaries of the captured events that are drawn, by name
SUMMARY ==
    [Empty |->
         <<>>,
     ReadMain |->
         <<"R", "e", "a", "d", " ", "m", "a", "i", "n", ".", "p", "y">>,
     PytestError |->
         <<"R", "a", "n", ":", " ", "p", "y", "t", "e", "s", "t", " ", "-", " ",
         "e", "r", "r", "o", "r", " ", "i", "n", " ", "t", "e", "s", "t", "_",
         "m", "a", "i", "n">>,
     Pytest |->
         <<"R", "a", "n", ":", " ", "p", "y", "t", "e", "s", "t", " ", "t", "e",
         "s", "t", "s", "/">>,
     Pyproject |->
         <<"C", "r", "e", "a", "t", "e", "d", " ", "p", "y", "p", "r", "o", "j",
         "e", "c", "t", ".", "t", "o", "m", "l", " ", "c", "o", "n", "f", "i", "g">>,
     ReadmeUpper |->
         <<"U", "p", "d", "a", "t", "e", "d", " ", "R", "E", "A", "D", "M", "E">>,
     Docker |->
         <<"R", "a", "n", ":", " ", "d", "o", "c", "k", "e", "r", " ", "b", "u",
         "i", "l", "d">>,
     AllUpper |->
         <<"F", "I", "X", " ", "T", "e", "s", "t", " ", "S", "e", "t", "u", "p",
         " ", "D", "o", "c">>,
     NpmTest |->
         <<"R", "a", "n", ":", " ", "n", "p", "m", " ", "t", "e", "s", "t">>,
     Prefix |->
         <<"E", "d", "i", "t", "e", "d", " ", "p", "r", "e", "f", "i", "x", ".",
         "p", "y">>,
     Ended |->
         <<"S", "e", "s", "s", "i", "o", "n", " ", "e", "n", "d", "e", "d">>,
     TestConfigDoc |->
         <<"T", "e", "s", "t", " ", "c", "o", "n", "f", "i", "g", " ", "d", "o", "c">>,
     Ls |->
         <<"R", "a", "n", ":", " ", "l", "s">>,
     SetupDoc |->
         <<"S", "E", "T", "U", "P", " ", "d", "o", "c">>,
     ReadTestUpper |->
         <<"R", "e", "a", "d", " ", "T", "E", "S", "T", ".", "p", "y">>,
     ErrorBoom |->
         <<"E", "r", "r", "o", "r", ":", " ", "b", "o", "o", "m">>,
     Edited |->
         <<"E", "d", "i", "t", "e", "d", " ", "h", "o", "t", ".", "p", "y">>]

ClassifierSummaries ==
    {SUMMARY.Empty, SUMMARY.ReadMain, SUMMARY.PytestError, SUMMARY.Pytest, SUMMARY.Pyproject,
     SUMMARY.ReadmeUpper, SUMMARY.Docker, SUMMARY.AllUpper, SUMMARY.NpmTest, SUMMARY.Prefix, SUMMARY.Ended,
     SUMMARY.TestConfigDoc, SUMMARY.Ls, SUMMARY.SetupDoc}

\* every tool of the table, a tool the table does not know, and no tool
ClassifierTools ==
    DOMAIN PHASE_INDICATORS \cup {"TodoWrite", NoTool}

InitClassifier ==
    /\ EmptyStore
    /\ \E tool \in ClassifierTools, summary \in ClassifierSummaries :
          arg = [fn |-> "_detect_phase_from_event",
                 event |-> Event(0, "s1", "tool_call", tool, summary, <<>>)]
    /\ ret = NoRet

DetectPhase ==
    Apply("_detect_phase_from_event", "_detect_phase_from_event",
          detect_phase_from_event(arg.event))

SpecClassifier ==
    InitClassifier /\ [][DetectPhase]_vars

\* C4: the classifier returns exactly one label by a fixed priority, first
\* match wins: a debugging keyword, else a testing keyword, else a
\* configuration keyword, else a documentation keyword, else the first entry
\* of the tool's row (read/search tools exploration, edit/write tools
\* implementation, Bash testing), else unknown; a keyword always overrides
\* the tool.
C4_ClassifierPriority ==
    ret.fn = "_detect_phase_from_event" =>
        LET s == Lower(arg.event.summary)
            tool == arg.event.tool_name
            dbg == AnyKeyword(s, DEBUG_KEYWORDS)
            tst == AnyKeyword(s, TEST_KEYWORDS)
            cfg == AnyKeyword(s, CONFIG_KEYWORDS)
            doc == AnyKeyword(s, DOC_KEYWORDS)
            nokw == ~dbg /\ ~tst /\ ~cfg /\ ~doc
        IN  /\ ret.value \in SessionPhase
            /\ dbg => ret.value = "debugging"
            /\ (~dbg /\ tst) => ret.value = "testing"
            /\ (~dbg /\ ~tst /\ cfg) => ret.value = "configuration"
            /\ (~dbg /\ ~tst /\ ~cfg /\ doc) => ret.value = "documentation"
            /\ (nokw /\ tool \in {"Read", "Glob", "Grep", "WebSearch", "WebFetch"})
                  => ret.value = "exploration"
            /\ (nokw /\ tool \in {"Edit", "Write", "NotebookEdit", "Task"})
                  => ret.value = "implementation"
            /\ (nokw /\ tool = "Bash") => ret.value = "testing"
            /\ (nokw /\ tool \notin DOMAIN PHASE_INDICATORS)
                  => ret.value = "unknown"

\* a Bash event whose summary holds a debugging and a testing keyword was
\* classified debugging, and not testing as its tool or second keyword say
C4_Witness ==
    /\ ret.fn = "_detect_phase_from_event"
    /\ arg.event.tool_name = "Bash"
    /\ arg.event.summary = SUMMARY.PytestError
    /\ ret.value = "debugging"

\* ------------------------------------------------------------------------
\* Specification of the run builder: _identify_phase_runs applied to one
\* event sequence
\* ------------------------------------------------------------------------

\* longest event sequence enumerated event by event
MaxShort ==
    6

\* most blocks of a block-built event sequence
MaxBlocks ==
    9

\* capture.py, _classify_event_type
classify_event_type(tool) ==
    IF tool \in {"Edit", "Write", "NotebookEdit"} THEN "code_change" ELSE "tool_call"

\* the events captured for the tool calls `tools`, one every `step` seconds
ToolEvents(tools, step) ==
    [k \in 1..Len(tools) |->
        Event((k - 1) * step, "s1", classify_event_type(tools[k]), tools[k],
              <<>>, <<>>)]

\* sizes[b] calls of the b-th tool of the cycle `pattern`, for every block b
BlockTools(sizes, pattern) ==
    Concat([b \in 1..Len(sizes) |->
               [k \in 1..sizes[b] |-> pattern[((b - 1) % Len(pattern)) + 1]]])

\* every sequence of at most MaxShort Read, Edit and Bash calls, at one
\* instant or 20 s, 40 s or 60 s apart (six events span 100 s, three events
\* 80 s or 120 s), and
\* every sequence of at most max_blocks blocks of 3 or 4 calls, or of 1 or 3
\* calls, of one tool, 60 s or 150 s apart (25 events span 3600 s)
RunBuilderInputs(max_short, max_blocks) ==
    {ToolEvents(tools, step) :
        tools \in SeqsUpTo({"Read", "Edit", "Bash"}, max_short),
        step \in {0, 20, 40, 60}}
    \cup
    {ToolEvents(BlockTools(sizes, pattern), step) :
        sizes \in SeqsUpTo({3, 4}, max_blocks) \cup SeqsUpTo({1, 3}, max_blocks),
        pattern \in {<<"Read", "Edit">>, <<"Read", "Edit", "Bash">>},
        step \in {60, 150}}

InitRunBuilder ==
    /\ EmptyStore
    /\ \E events \in RunBuilderInputs(MaxShort, MaxBlocks) :
          arg = [fn |-> "_identify_phase_runs", events |-> events]
    /\ ret = NoRet

IdentifyPhaseRuns ==
    Apply("_identify_phase_runs", "_identify_phase_runs",
          identify_phase_runs(arg.events))

SpecRunBuilder ==
    InitRunBuilder /\ [][IdentifyPhaseRuns]_vars

\* C1: for a non-empty event sequence of length n the returned runs partition
\* [0, n-1]: the first starts at 0, the last ends at n-1, each has
\* start_index <= end_index, each next one starts at the previous end_index + 1,
\* and event_count = end_index - start_index + 1.
C1_RunsPartition ==
    (ret.fn = "_identify_phase_runs" /\ arg.events # <<>>) =>
        LET rs == ret.value
            n == Len(arg.events)
        IN  /\ Len(rs) >= 1
            /\ rs[1].start_index = 0
            /\ rs[Len(rs)].end_index = n - 1
            /\ \A k \in 1..Len(rs) :
                  /\ rs[k].start_index <= rs[k].end_index
                  /\ rs[k].event_count = rs[k].end_index - rs[k].start_index + 1
            /\ \A k \in 1..(Len(rs) - 1) :
                  rs[k + 1].start_index = rs[k].end_index + 1

\* a timeline of several runs, some of them grown by absorbing a short run
C1_Witness ==
    /\ ret.fn = "_identify_phase_runs"
    /\ Len(ret.value) >= 2
    /\ Len(ret.value) < Len(RawRuns(arg.events))

\* C2: the timeline has at most 8 runs when the session lasts strictly more
\* than 3600 s (last timestamp minus first), and at most 6 otherwise.
C2_RunCap ==
    ret.fn = "_identify_phase_runs" =>
        LET events == arg.events
            duration ==
                IF events = <<>> THEN 0
                ELSE events[Len(events)].timestamp - events[1].timestamp
        IN  IF duration > 3600 THEN Len(ret.value) <= 8 ELSE Len(ret.value) <= 6

\* a session of exactly 3600 s that had more than 6 runs before the cap was
\* enforced and was returned with 6
C2_Witness ==
    /\ ret.fn = "_identify_phase_runs"
    /\ arg.events # <<>>
    /\ arg.events[Len(arg.events)].timestamp - arg.events[1].timestamp = 3600
    /\ Len(Consolidate(Absorb(RawRuns(arg.events)))) > 6
    /\ Len(ret.value) = 6

\* ------------------------------------------------------------------------
\* Specification of the point locators: _identify_decision_points and
\* _identify_turning_points applied to one event sequence
\* ------------------------------------------------------------------------

\* longest event sequence given to the point locators
MaxPoints ==
    3

HotPy ==
    <<"project", "hot.py">>

LibHotPy ==
    <<"lib", "hot.py">>

PointKinds ==
    { Kind("tool_call", "Read", SUMMARY.ReadMain, <<HotPy>>),
      Kind("tool_call", "Read", SUMMARY.ReadTestUpper, <<>>),
      Kind("code_change", "Edit", SUMMARY.Edited, <<HotPy>>),
      Kind("code_change", "Edit", SUMMARY.Edited, <<HotPy, LibHotPy>>),
      Kind("code_change", "Write", SUMMARY.Pyproject, <<LibHotPy>>),
      Kind("tool_call", "Bash", SUMMARY.NpmTest, <<>>),
      Kind("tool_call", "Bash", SUMMARY.Ls, <<>>),
      Kind("error", "Bash", SUMMARY.PytestError, <<>>),
      Kind("error", NoTool, SUMMARY.ErrorBoom, <<>>) }

InitPoints ==
    /\ EmptyStore
    /\ \E kinds \in SeqsUpTo(PointKinds, MaxPoints) :
          arg = [fn |-> "points", events |-> KindEvents(kinds, 60)]
    /\ ret = NoRet

IdentifyDecisionPoints ==
    Apply("points", "_identify_decision_points",
          identify_decision_points(arg.events))

IdentifyTurningPoints ==
    Apply("points", "_identify_turning_points",
          identify_turning_points(arg.events))

NextPoints ==
    \/ IdentifyDecisionPoints
    \/ IdentifyTurningPoints

SpecPoints ==
    InitPoints /\ [][NextPoints]_vars

StrictlyAscending(xs) ==
    \A k \in 1..(Len(xs) - 1) : xs[k] < xs[k + 1]

\* rule (a): the classified phase changes at i and the new phase is implementation
PhaseTurnsToImplementation(events, i) ==
    /\ i > 0
    /\ detect_phase_from_event(At(events, i)) # detect_phase_from_event(At(events, i - 1))
    /\ detect_phase_from_event(At(events, i)) = "implementation"

\* rule (b): a code_change touching a path that no earlier event lists
ChangesNewFile(events, i) ==
    /\ At(events, i).event_type = "code_change"
    /\ \E f \in Range(At(events, i).files_affected) :
          \A j \in 0..(i - 1) : f \notin Range(At(events, j).files_affected)

\* C5: _identify_decision_points returns exactly the strictly ascending list
\* of the indices i where (a) the classified phase changes from event i-1 to
\* event i and becomes implementation, or (b) event i is a code_change with a
\* path listed by no earlier event; no other index, and none twice.
C5_DecisionPoints ==
    ret.fn = "_identify_decision_points" =>
        /\ StrictlyAscending(ret.value)
        /\ Range(ret.value) =
              {i \in 0..(Len(arg.events) - 1) :
                  \/ PhaseTurnsToImplementation(arg.events, i)
                  \/ ChangesNewFile(arg.events, i)}

\* after a Bash ls, index 1 (an Edit of a new file) holds by both rules and is
\* returned once; index 2 (a Write classified configuration, of a new file)
\* holds by rule (b) alone
C5_Witness ==
    /\ ret.fn = "_identify_decision_points"
    /\ Len(arg.events) = 3
    /\ PhaseTurnsToImplementation(arg.events, 1) /\ ChangesNewFile(arg.events, 1)
    /\ ~PhaseTurnsToImplementation(arg.events, 2) /\ ChangesNewFile(arg.events, 2)
    /\ ret.value = <<1, 2>>

\* C6: _identify_turning_points returns exactly the strictly ascending list of
\* the indices i where event i has type error, or has tool Bash and a
\* lower-cased summary containing test, pytest or npm test; an event with
\* both appears once.
C6_TurningPoints ==
    ret.fn = "_identify_turning_points" =>
        /\ StrictlyAscending(ret.value)
        /\ Range(ret.value) =
              {i \in 0..(Len(arg.events) - 1) :
                  \/ At(arg.events, i).event_type = "error"
                  \/ /\ At(arg.events, i).tool_name = "Bash"
                     /\ \E kw \in {<<"t", "e", "s", "t">>,
                                   <<"p", "y", "t", "e", "s", "t">>,
                                   <<"n", "p", "m", " ", "t", "e", "s", "t">>} :
                           Contains(Lower(At(arg.events, i).summary), kw)}

\* an error event run by Bash with a test keyword is returned once; a Read of
\* TEST.py is not returned
C6_Witness ==
    /\ ret.fn = "_identify_turning_points"
    /\ Len(arg.events) = 3
    /\ At(arg.events, 0).event_type = "error" /\ At(arg.events, 0).tool_name = "Bash"
    /\ At(arg.events, 1).summary = SUMMARY.ReadTestUpper
    /\ At(arg.events, 2).summary = SUMMARY.NpmTest
    /\ ret.value = <<0, 2>>

\* ------------------------------------------------------------------------
\* Specification of the insight miner: _extract_insights applied to one
\* event sequence
\* ------------------------------------------------------------------------

\* longest sequence of errors, code changes and reads
MaxDetour ==
    8

\* longest sequence of events that list files
MaxHotspot ==
    5

\* most events of a session given by its number of calls of each tool
MaxTools ==
    7

DetourKinds ==
    { Kind("error", "Bash", SUMMARY.ErrorBoom, <<>>),
      Kind("code_change", "Edit", SUMMARY.Edited, <<HotPy>>),
      Kind("tool_call", "Read", SUMMARY.ReadMain, <<>>) }

\* the capture hook lists file_path, path and notebook_path of the tool input
\* (hooks.py, lines 63-66), so one path can be listed twice by one event
HotspotKinds ==
    { Kind("code_change", "Edit", SUMMARY.Edited, <<HotPy>>),
      Kind("code_change", "Edit", SUMMARY.Edited, <<LibHotPy>>),
      Kind("code_change", "Edit", SUMMARY.Edited, <<HotPy, HotPy>>),
      Kind("tool_call", "Bash", SUMMARY.Ls, <<>>) }

\* a session_end or notification event carries no tool name
CountedKinds ==
    << Kind("tool_call", "Read", SUMMARY.ReadMain, <<>>),
       Kind("tool_call", "Grep", SUMMARY.Empty, <<>>),
       Kind("tool_call", "Glob", SUMMARY.Empty, <<>>),
       Kind("code_change", "Edit", SUMMARY.Edited, <<>>),
       Kind("code_change", "Write", SUMMARY.Empty, <<>>),
       Kind("tool_call", "Bash", SUMMARY.Ls, <<>>),
       Kind("session_end", NoTool, SUMMARY.Ended, <<>>) >>

\* the sequences of k numbers whose sum is at most budget
RECURSIVE CountVectors(_, _)
CountVectors(k, budget) ==
    IF k = 0 THEN {<<>>}
    ELSE UNION {{<<c>> \o v : v \in CountVectors(k - 1, budget - c)} : c \in 0..budget}

\* counts[k] events of the k-th kind, for every kind
CountedEvents(counts) ==
    Concat([k \in 1..Len(counts) |-> [j \in 1..counts[k] |-> CountedKinds[k]]])

InsightInputs(max_detour, max_hotspot, max_tools) ==
    {KindEvents(kinds, 60) : kinds \in SeqsUpTo(DetourKinds, max_detour)}
    \cup {KindEvents(kinds, 60) : kinds \in SeqsUpTo(HotspotKinds, max_hotspot)}
    \cup {KindEvents(CountedEvents(counts), 60) :
             counts \in CountVectors(Len(CountedKinds), max_tools)}

InitInsights ==
    /\ EmptyStore
    /\ \E events \in InsightInputs(MaxDetour, MaxHotspot, MaxTools) :
          arg = [fn |-> "_extract_insights", events |-> events]
    /\ ret = NoRet

ExtractInsights ==
    Apply("_extract_insights", "_extract_insights", extract_insights(arg.events))

SpecInsights ==
    InitInsights /\ [][ExtractInsights]_vars

\* the positions, in a list of insights, of those with the given title
Titled(insights, title) ==
    {k \in 1..Len(insights) : insights[k].title[1] = title}

\* the indices of the events that list path F
Referencing(events, F) ==
    {i \in 0..(Len(events) - 1) : F \in Range(At(events, i).files_affected)}

\* the indices of the events whose tool is one of tools
UsingTool(events, tools) ==
    {i \in 0..(Len(events) - 1) : At(events, i).tool_name \in tools}

\* the first n elements of a list
FirstN(xs, n) ==
    SubSeq(xs, 1, Min(Len(xs), n))

\* C7: for every path F there is exactly one 'Hotspot file' insight for F if
\* and only if at least 4 events list F in files_affected, an event counting
\* once however often it lists F; its supporting_events are the indices of
\* the first up to 5 such events, ascending.
C7_Hotspot ==
    ret.fn = "_extract_insights" =>
        \A F \in UNION {Range(arg.events[k].files_affected) : k \in 1..Len(arg.events)} :
            LET refs == Referencing(arg.events, F)
                hs == {k \in Titled(ret.value, "Hotspot file: ") :
                          ret.value[k].description.filepath = F}
            IN  IF Cardinality(refs) >= 4
                THEN /\ Cardinality(hs) = 1
                     /\ \A k \in hs :
                           ret.value[k].supporting_events = FirstN(SortedSet(refs), 5)
                ELSE hs = {}

\* C8: there is exactly one 'Read-heavy session' insight if and only if the
\* events whose tool is Read, Grep or Glob are strictly more than 0.6 of all
\* the events of the session, those without a tool name included.
C8_ReadHeavy ==
    ret.fn = "_extract_insights" =>
        LET reads == Cardinality(UsingTool(arg.events, {"Read", "Grep", "Glob"}))
            n == Cardinality(Titled(ret.value, "Read-heavy session"))
        IN  IF 10 * reads > 6 * Len(arg.events) THEN n = 1 ELSE n = 0

\* C9: there is exactly one 'Implementation-heavy session' insight if and
\* only if the session has more than 5 events and the events whose tool is
\* Edit or Write are strictly more than 0.5 of them.
C9_ImplementationHeavy ==
    ret.fn = "_extract_insights" =>
        LET writes == Cardinality(UsingTool(arg.events, {"Edit", "Write"}))
            n == Cardinality(Titled(ret.value, "Implementation-heavy session"))
        IN  IF Len(arg.events) > 5 /\ 10 * writes > 5 * Len(arg.events)
            THEN n = 1 ELSE n = 0

\* the index of the most recent error before j, for a j that has one
LastErrorBefore(events, j) ==
    CHOOSE e \in 0..(j - 1) :
        /\ At(events, e).event_type = "error"
        /\ \A k \in (e + 1)..(j - 1) : At(events, k).event_type # "error"

\* the pairs (most recent error before j, j) of the code changes j that follow
\* an error by more than 5 events
DetourPairs(events) ==
    {<<LastErrorBefore(events, j), j>> :
        j \in {j \in 0..(Len(events) - 1) :
                  /\ At(events, j).event_type = "code_change"
                  /\ \E e \in 0..(j - 1) : At(events, e).event_type = "error"
                  /\ j - LastErrorBefore(events, j) > 5}}

\* C10: every code_change at j that follows an error is paired with the most
\* recent error e before j; there is one mistake insight with
\* supporting_events [e, j] for each pair with j - e > 5, and none for a pair
\* with j - e <= 5.
C10_Detours ==
    ret.fn = "_extract_insights" =>
        LET ds == Titled(ret.value, "Debugging detour detected")
        IN  /\ {ret.value[k].supporting_events : k \in ds} = DetourPairs(arg.events)
            /\ Cardinality(ds) = Cardinality(DetourPairs(arg.events))
            /\ \A k \in ds : ret.value[k].insight_type = "mistake"
            /\ {k \in 1..Len(ret.value) : ret.value[k].insight_type = "mistake"} = ds

\* an error at 0, code changes at 1 and at 5 (a gap of exactly 5: no insight)
\* and code changes at 6 and 7 that each give an insight for the same error
C10_Witness ==
    /\ ret.fn = "_extract_insights"
    /\ Len(arg.events) = 8
    /\ At(arg.events, 0).event_type = "error"
    /\ At(arg.events, 1).event_type = "code_change"
    /\ At(arg.events, 5).event_type = "code_change"
    /\ {ret.value[k].supporting_events :
           k \in Titled(ret.value, "Debugging detour detected")} = {<<0, 6>>, <<0, 7>>}

\* ------------------------------------------------------------------------
\* Specification of the exploration bursts: _extract_insights applied to a
\* sequence of blocks of calls of one tool
\* ------------------------------------------------------------------------

\* most blocks of a sequence
MaxBursts ==
    3

\* the calls a block is made of: two exploration-class tools, a tool that is
\* not exploration-class, and an event without a tool
BurstKinds ==
    { Kind("tool_call", "Read", SUMMARY.ReadMain, <<>>),
      Kind("tool_call", "WebSearch", SUMMARY.Empty, <<>>),
      Kind("tool_call", "WebFetch", SUMMARY.Empty, <<>>),
      Kind("session_end", NoTool, SUMMARY.Ended, <<>>) }

\* a block is <<kind, number of calls>>: one call, or one less than, or just
\* as many as a significant exploration run has
BurstBlocks ==
    BurstKinds \X {1, 4, 5}

BlockEvents(blocks) ==
    Concat([k \in 1..Len(blocks) |-> [j \in 1..blocks[k][2] |-> blocks[k][1]]])

BurstInputs(max_bursts) ==
    {KindEvents(BlockEvents(blocks), 60) : blocks \in SeqsUpTo(BurstBlocks, max_bursts)}

InitBursts ==
    /\ EmptyStore
    /\ \E events \in BurstInputs(MaxBursts) :
          arg = [fn |-> "_extract_insights", events |-> events]
    /\ ret = NoRet

SpecBursts ==
    InitBursts /\ [][ExtractInsights]_vars

\* the maximal runs <<first, last>> of 5 or more consecutive events whose tool
\* is an exploration-class tool
ExplorationBursts(events) ==
    LET n == Len(events)
        Exploring(i) == At(events, i).tool_name \in {"Read", "Glob", "Grep", "WebSearch"}
    IN  {r \in (0..(n - 1)) \X (0..(n - 1)) :
            /\ r[2] - r[1] + 1 >= 5
            /\ \A i \in r[1]..r[2] : Exploring(i)
            /\ (r[1] = 0 \/ ~Exploring(r[1] - 1))
            /\ (r[2] = n - 1 \/ ~Exploring(r[2] + 1))}

\* C11: there is exactly one 'Multiple exploration phases' insight if and only
\* if the sequence has at least 2 maximal runs of 5 or more consecutive events
\* whose tool is Read, Glob, Grep or WebSearch; a run that reaches the end
\* counts and any other event, one without a tool included, ends a run.
C11_ExplorationBursts ==
    ret.fn = "_extract_insights" =>
        LET n == Cardinality(Titled(ret.value, "Multiple exploration phases"))
        IN  IF Cardinality(ExplorationBursts(arg.events)) >= 2 THEN n = 1 ELSE n = 0

\* exactly two runs, the first of 4 reads and a web search, ended by an event
\* without a tool, the second reaching the end: the insight is there
C11_Witness ==
    /\ ret.fn = "_extract_insights"
    /\ Len(arg.events) = 11
    /\ ExplorationBursts(arg.events) = {<<0, 4>>, <<6, 10>>}
    /\ At(arg.events, 4).tool_name = "WebSearch"
    /\ At(arg.events, 5).tool_name = NoTool
    /\ Cardinality(Titled(ret.value, "Multiple exploration phases")) = 1

\* ------------------------------------------------------------------------
\* Specification of the store: events are captured into the sessions and the
\* sessions are analyzed, in any order
\* ------------------------------------------------------------------------

\* the events the store holds at most, over all sessions
MaxEvents ==
    3

\* the seconds between two captured events
Tick ==
    60

MainPy ==
    <<"home", "dev", "vibe", "main.py">>

\* the kinds of events that are captured: a file is read, a file is edited,
\* a command fails
MainKinds ==
    {Kind("tool_call", "Read", SUMMARY.ReadMain, <<MainPy>>),
     Kind("code_change", "Edit", SUMMARY.Edited, <<HotPy>>),
     Kind("error", "Bash", SUMMARY.ErrorBoom, <<>>)}

\* what is captured into which session: every kind into the first session,
\* reads only into the second
Captured ==
    {<<"s1", kind>> : kind \in MainKinds}
       \cup {<<"s2", Kind("tool_call", "Read", SUMMARY.ReadMain, <<MainPy>>)>>}

\* no analyzer function is called on its own in this specification
NoArg ==
    [fn |-> "none"]

Init ==
    /\ EmptyStore
    /\ arg = NoArg
    /\ ret = NoRet

TotalEvents ==
    LET RECURSIVE Sum(_)
        Sum(S) == IF S = {} THEN 0
                  ELSE LET s == CHOOSE s \in S : TRUE
                       IN  Len(store_events[s]) + Sum(S \ {s})
    IN  Sum(SessionIds)

\* store.py save_metadata: metadata.json is rewritten and the row of the
\* session in the index is replaced
save_metadata(metadata) ==
    /\ store_metadata' = [store_metadata EXCEPT
                              ![metadata.session_id] =
                                  [json |-> MetadataJson(metadata)]]
    /\ store_index' = [store_index EXCEPT
                           ![metadata.session_id] = MetadataJson(metadata)]

\* a save that leaves a replay.json that is already there as it is
save_replay_keep_old(replay) ==
    store_replay' = [store_replay EXCEPT
                        ![replay.metadata.session_id] =
                            IF @ = NoRecord THEN ReplayDump(replay) ELSE @]

\* store.py save_replay: replay.json is rewritten
save_replay(replay) ==
    store_replay' = [store_replay EXCEPT
                        ![replay.metadata.session_id] = ReplayDump(replay)]

\* an event of the given kind is captured now and appended to the log of the
\* session (capture.py create_event_from_hook, store.py append_event)
append_event(session_id, kind) ==
    /\ arg = NoArg
    /\ TotalEvents < MaxEvents
    /\ now' = now + Tick
    /\ store_events' =
          [store_events EXCEPT ![session_id] =
              Append(@, EventDump(Event(now', session_id, kind.event_type,
                                        kind.tool_name, kind.summary,
                                        kind.files_affected)))]
    /\ runs' = [runs EXCEPT ![session_id] = <<>>]
    /\ UNCHANGED <<store_metadata, store_index, store_replay, arg, ret>>

\* analyzer.py analyze_session: the session is analyzed, its metadata and its
\* replay are saved and the replay is returned; an exception of get_events
\* (line 536) ends the call before anything is saved
analyze_session(session_id) ==
    /\ arg = NoArg
    /\ ~GetEventsRaises(session_id)
    /\ \E replay \in AnalyzedReplays(session_id, get_events(session_id),
                                     get_metadata(session_id)) :
          /\ save_metadata(replay.metadata)
          /\ save_replay(replay)
          /\ runs' = [runs EXCEPT ![session_id] =
                         IF @ = <<>> THEN <<replay>> ELSE <<@[Len(@)], replay>>]
    /\ UNCHANGED <<store_events, now, arg, ret>>

Next ==
    \/ \E c \in Captured : append_event(c[1], c[2])
    \/ \E s \in SessionIds : analyze_session(s)

Spec ==
    Init /\ [][Next]_vars

\* C3: two runs of analyze_session over the same stored events of a session,
\* with no event appended in between, return the same timeline, insights,
\* key_decision_indices, turning_point_indices and statistics.
C3_Determinism ==
    \A s \in SessionIds :
        Len(runs[s]) = 2 =>
            /\ runs[s][1].timeline = runs[s][2].timeline
            /\ runs[s][1].insights = runs[s][2].insights
            /\ runs[s][1].key_decision_indices = runs[s][2].key_decision_indices
            /\ runs[s][1].turning_point_indices = runs[s][2].turning_point_indices
            /\ runs[s][1].statistics = runs[s][2].statistics

\* a session was analyzed, grew to three events, and was then analyzed twice:
\* the two runs read metadata that earlier runs had stored (the summary they
\* return is the one of the shorter session), and both returned an insight
\* and a decision point
C3_Witness ==
    \E s \in SessionIds :
        /\ Len(runs[s]) = 2
        /\ Len(get_events(s)) = 3
        /\ runs[s][2].metadata.summary \notin
              generate_session_summary(get_events(s), runs[s][2].timeline)
        /\ runs[s][2].insights # <<>>
        /\ runs[s][2].key_decision_indices # <<>>

\* ------------------------------------------------------------------------
\* Specification of the analysis of a captured session: the store holds a
\* session, made of blocks of events of one kind, and the session is
\* analyzed
\* ------------------------------------------------------------------------

\* most blocks of the captured session
MaxCaptured ==
    3

\* a block is <<kind, number of events>>: one event, or as many as make a
\* phase of their own, two such blocks of code changes or errors holding
\* more key events than a phase keeps
CapturedBlocks ==
    MainKinds \X {1, 6}

CapturedInputs(max_captured) ==
    {KindEvents(BlockEvents(blocks), Tick) :
        blocks \in SeqsUpTo(CapturedBlocks, max_captured)}

\* the session that is captured: KindEvents makes events of this session
CapturedSession ==
    "s1"

\* the store after the events of a session were captured
InitCaptured ==
    /\ \E events \in CapturedInputs(MaxCaptured) :
          /\ store_events = [s \in SessionIds |->
                                IF s = CapturedSession
                                THEN [k \in 1..Len(events) |-> EventDump(events[k])]
                                ELSE <<>>]
          /\ now = Len(events) * Tick
    /\ store_metadata = [s \in SessionIds |-> NoRecord]
    /\ store_index = [s \in SessionIds |-> NoRecord]
    /\ store_replay = [s \in SessionIds |-> NoRecord]
    /\ runs = [s \in SessionIds |-> <<>>]
    /\ arg = NoArg
    /\ ret = NoRet

SpecAnalyze ==
    InitCaptured /\ [][analyze_session(CapturedSession)]_vars

\* the indices of a replay lie in the n events it was made from, and the key
\* events of each of its runs are at most 10 indices of the run, ascending,
\* of events of type code_change or error
ValidIndices(replay, events) ==
    LET n == Len(events)
        InRange(xs) == \A k \in 1..Len(xs) : xs[k] \in 0..(n - 1)
    IN  /\ InRange(replay.key_decision_indices)
        /\ InRange(replay.turning_point_indices)
        /\ \A k \in 1..Len(replay.insights) :
              InRange(replay.insights[k].supporting_events)
        /\ \A k \in 1..Len(replay.timeline) :
              LET run == replay.timeline[k]
              IN  /\ InRange(run.key_events)
                  /\ Len(run.key_events) <= 10
                  /\ \A j \in 1..Len(run.key_events) :
                        /\ run.key_events[j] \in run.start_index..run.end_index
                        /\ At(events, run.key_events[j]).event_type
                              \in {"code_change", "error"}
                        /\ j > 1 => run.key_events[j - 1] < run.key_events[j]

\* C12: in every replay analyze_session makes of a snapshot of n events,
\* every index of key_decision_indices, turning_point_indices, the insights'
\* supporting_events and the runs' key_events lies in [0, n-1]; the key_events
\* of a run are at most 10, within the run, ascending, and point at events of
\* type code_change or error.
C12_ValidIndices ==
    \A s \in SessionIds :
        \A k \in 1..Len(runs[s]) : ValidIndices(runs[s][k], get_events(s))

\* a replay with a run of 12 code changes that keeps the first 10 as its key
\* events, with decision points and insights that name events
C12_Witness ==
    /\ Len(runs["s1"]) = 1
    /\ Len(get_events("s1")) = 13
    /\ \E k \in 1..Len(runs["s1"][1].timeline) :
          LET run == runs["s1"][1].timeline[k]
          IN  /\ run.event_count = 12
              /\ Len(run.key_events) = 10
              /\ Cardinality({i \in run.start_index..run.end_index :
                    At(get_events("s1"), i).event_type = "code_change"}) = 12
    /\ runs["s1"][1].key_decision_indices # <<>>
    /\ \E k \in 1..Len(runs["s1"][1].insights) :
          runs["s1"][1].insights[k].supporting_events # <<>>

\* the sum of the counts of a Counter
RECURSIVE CounterTotal(_)
CounterTotal(counter) ==
    IF counter = <<>> THEN 0 ELSE Head(counter)[2] + CounterTotal(Tail(counter))

\* the number of events of the given type
EventsOfType(events, etype) ==
    Cardinality({k \in 1..Len(events) : events[k].event_type = etype})

\* C13: after every analyze_session over n stored events, whatever metadata
\* was stored before, the returned and the persisted metadata.event_count
\* equal n and statistics.total_events; the per-event-type counts of the
\* statistics sum to n, and code_changes and errors_encountered are the
\* numbers of events of type code_change and error.
C13_EventCounts ==
    \A s \in SessionIds :
        \A k \in 1..Len(runs[s]) :
            LET replay == runs[s][k]
                n == Len(get_events(s))
            IN  /\ replay.metadata.event_count = n
                /\ replay.statistics.total_events = n
                /\ get_metadata(s) # NoRecord
                /\ get_metadata(s).event_count = n
                /\ CounterTotal(replay.statistics.event_types) = n
                /\ replay.statistics.code_changes
                      = EventsOfType(get_events(s), "code_change")
                /\ replay.statistics.errors_encountered
                      = EventsOfType(get_events(s), "error")

\* a session analyzed when it was shorter (its summary is the one of the
\* shorter session), so that the stored event_count was stale, is analyzed
\* once at three events, of which one is a code change and one an error
C13_Witness ==
    \E s \in SessionIds :
        /\ Len(runs[s]) = 1
        /\ Len(get_events(s)) = 3
        /\ runs[s][1].metadata.summary \notin
              generate_session_summary(get_events(s), runs[s][1].timeline)
        /\ runs[s][1].metadata.event_count = 3
        /\ runs[s][1].statistics.code_changes = 1
        /\ runs[s][1].statistics.errors_encountered = 1

\* ---------------------------------------------------------------------------
\* What analyze_session leaves in the store

\* the replay the last step returned for the session
Returned(session_id) ==
    runs[session_id][Len(runs[session_id])]

\* the step is a return of analyze_session for the session
Analyzed(session_id) ==
    /\ runs'[session_id] # <<>>
    /\ runs'[session_id] # runs[session_id]

\* C14: after analyze_session(store, s) has returned replay R, get_replay(s)
\* is R and get_metadata(s) is R.metadata (nothing of an older replay of s
\* remains), the events of s are as before and the events, metadata and
\* replays of every other session are as before.
C14_ReplayStored ==
    [][\A s \in SessionIds :
          Analyzed(s) =>
              /\ get_replay(s)' = Returned(s)'
              /\ get_metadata(s)' = Returned(s)'.metadata
              /\ store_events' = store_events
              /\ \A t \in SessionIds \ {s} :
                    /\ store_metadata'[t] = store_metadata[t]
                    /\ store_replay'[t] = store_replay[t]]_vars

\* a session that was analyzed before it grew has just been analyzed again
\* (its summary is the one of the shorter session, so an older replay was
\* stored and is replaced), while another session has events and a replay
C14_Witness ==
    \E s \in SessionIds :
        /\ runs[s] # <<>>
        /\ get_replay(s) = Returned(s)
        /\ get_metadata(s) = Returned(s).metadata
        /\ Len(get_events(s)) = 2
        /\ Returned(s).statistics.total_events = 2
        /\ Returned(s).metadata.summary \notin
              generate_session_summary(get_events(s), Returned(s).timeline)
        /\ \E t \in SessionIds \ {s} :
              /\ get_events(t) # <<>>
              /\ get_replay(t) # NoRecord

\* the summary the stored metadata of the session carries, NoSummary when no
\* metadata is found
StoredSummary(session_id) ==
    IF get_metadata(session_id) = NoRecord
    THEN NoSummary
    ELSE get_metadata(session_id).summary

\* C15: analyze_session generates the narrative summary only when the stored
\* metadata carries no summary and the session has at least one event; a
\* summary that the stored metadata carries is returned and stored unchanged
\* by every later analyze_session, whatever events were appended since.
C15_SummaryKept ==
    [][\A s \in SessionIds :
          Analyzed(s) =>
              /\ StoredSummary(s) # NoSummary =>
                    /\ Returned(s)'.metadata.summary = StoredSummary(s)
                    /\ StoredSummary(s)' = StoredSummary(s)
              /\ Returned(s)'.metadata.summary # StoredSummary(s) =>
                    /\ StoredSummary(s) = NoSummary
                    /\ get_events(s) # <<>>
                    /\ Returned(s)'.metadata.summary \in
                          generate_session_summary(get_events(s),
                                                   Returned(s)'.timeline)]_vars

\* a session of three events whose last analysis covered the three events and
\* returned a summary that cannot be generated from them: the summary is the
\* one an analysis of the shorter session had stored
C15_Witness ==
    \E s \in SessionIds :
        /\ runs[s] # <<>>
        /\ Len(get_events(s)) = 3
        /\ Returned(s).statistics.total_events = 3
        /\ StoredSummary(s) # NoSummary
        /\ StoredSummary(s) = Returned(s).metadata.summary
        /\ StoredSummary(s) \notin
              generate_session_summary(get_events(s), Returned(s).timeline)

\* the session has no stored event and no metadata is found for it
Unknown(session_id) ==
    /\ get_events(session_id) = <<>>
    /\ get_metadata(session_id) = NoRecord

\* the replay of a session without events
EmptyReplay(replay) ==
    /\ replay.timeline = <<>>
    /\ replay.insights = <<>>
    /\ replay.key_decision_indices = <<>>
    /\ replay.turning_point_indices = <<>>
    /\ replay.statistics.total_events = 0
    /\ replay.statistics.duration_seconds = 0
    /\ replay.statistics.duration_human = <<0, "s">>
    /\ replay.metadata.event_count = 0
    /\ replay.metadata.end_time = NoNumber
    /\ replay.metadata.summary = NoSummary

\* C16: analyze_session on a session with no stored event and no metadata
\* does not fail; it returns a replay with an empty timeline, no insights,
\* empty decision and turning point lists, statistics with total_events 0,
\* duration_seconds 0 and duration_human "0s", and a synthesized metadata with
\* event_count 0, no end_time and an empty summary; it stores both the
\* metadata and the replay.
C16_UnknownSession ==
    /\ [](\A s \in SessionIds :
            Unknown(s) =>
                /\ ~GetEventsRaises(s)
                /\ AnalyzedReplays(s, get_events(s), get_metadata(s)) # {})
    /\ [][\A s \in SessionIds :
            Analyzed(s) /\ Unknown(s) =>
                /\ EmptyReplay(Returned(s)')
                /\ Returned(s)'.metadata.session_id = s
                /\ get_metadata(s)' = Returned(s)'.metadata
                /\ get_replay(s)' = Returned(s)']_vars

\* a session without events was analyzed exactly once, so no metadata was
\* found for it, and the empty replay that was returned is the stored one
C16_Witness ==
    \E s \in SessionIds :
        /\ get_events(s) = <<>>
        /\ Len(runs[s]) = 1
        /\ EmptyReplay(Returned(s))
        /\ get_replay(s) = Returned(s)
        /\ get_metadata(s) = Returned(s).metadata

\* ---------------------------------------------------------------------------
\* store.py list_sessions and analyzer.py aggregate_learnings

\* str.strip()
Strip(text) ==
    LET WHITESPACE == {" ", "\t", "\n"}
        RECURSIVE LStrip(_)
        LStrip(t) ==
            IF t # <<>> /\ Head(t) \in WHITESPACE THEN LStrip(Tail(t)) ELSE t
        RECURSIVE RStrip(_)
        RStrip(t) ==
            IF t # <<>> /\ t[Len(t)] \in WHITESPACE
            THEN RStrip(SubSeq(t, 1, Len(t) - 1))
            ELSE t
    IN  RStrip(LStrip(text))

\* lines 266-334 without a project filter and offset: the lists of metadata
\* that can be returned, each rebuilt from the columns of its row.
\* ORDER BY start_time DESC compares the ISO texts of the times, and the texts
\* of the times of one clock compare as the times do; rows of equal start_time
\* come in any order. LIMIT ? of SQLite keeps the first rows, and all of them
\* when the limit is negative.
list_sessions(limit) ==
    LET indexed == {s \in DOMAIN store_index : store_index[s] # NoRecord}
        row_orders ==
            {order \in Orders(indexed) :
                \A i, j \in DOMAIN order :
                    i < j => store_index[order[i]].start_time[2]
                                >= store_index[order[j]].start_time[2]}
        Limited(rows) ==
            IF limit < 0 THEN rows ELSE SubSeq(rows, 1, Min(limit, Len(rows)))
    IN  {[k \in 1..Len(Limited(order)) |-> MetadataOfJson(store_index[order[k]])] :
            order \in row_orders}

\* lines 709-712: the insights of the stored replays of the sessions, in order
RECURSIVE AllInsights(_)
AllInsights(sessions) ==
    IF sessions = <<>> THEN <<>>
    ELSE LET replay == get_replay(Head(sessions).session_id)
         IN  (IF replay # NoRecord THEN replay.insights ELSE <<>>)
             \o AllInsights(Tail(sessions))

\* lines 715-721: the first insight of every title, the titles compared
\* lower-cased and stripped
RECURSIVE UniqueLoop(_, _, _)
UniqueLoop(all_insights, seen_titles, unique) ==
    IF all_insights = <<>> THEN unique
    ELSE LET insight == Head(all_insights)
             title_key == Strip(Lower(insight.title))
         IN  IF title_key \notin seen_titles
             THEN UniqueLoop(Tail(all_insights), seen_titles \cup {title_key},
                             Append(unique, insight))
             ELSE UniqueLoop(Tail(all_insights), seen_titles, unique)

\* line 724: list.sort(key=confidence, reverse=True), a stable sort: every
\* insight is put behind the ones of the same or a higher confidence
RECURSIVE SortByConfidence(_, _)
SortByConfidence(insights, sorted) ==
    IF insights = <<>> THEN sorted
    ELSE LET insight == Head(insights)
             before == SelectSeq(sorted, LAMBDA x : x.confidence >= insight.confidence)
             after == SelectSeq(sorted, LAMBDA x : x.confidence < insight.confidence)
         IN  SortByConfidence(Tail(insights), before \o <<insight>> \o after)

\* lines 694-725: the lists that can be returned
aggregate_learnings(limit) ==
    {SortByConfidence(UniqueLoop(AllInsights(sessions), {}, <<>>), <<>>) :
        sessions \in list_sessions(limit)}

\* ---------------------------------------------------------------------------
\* aggregate_learnings over stores of indexed sessions with stored replays

\* the largest limit that is asked for
MaxLimit ==
    2

\* the largest number of insights of a stored replay
MaxLearned ==
    2

\* insights of stored replays: two whose titles differ in case and in the
\* white space around them, and two of the same confidence
LearnedInsights ==
    {Insight("pattern", <<"H", "o", "t">>, "", <<>>, 9),
     Insight("pattern", <<" ", "h", "o", "t", " ">>, "", <<>>, 5),
     Insight("learning", <<"C", "o", "l", "d">>, "", <<>>, 5)}

\* the replay that was stored with the given insights for a session that
\* started at the given time
LearnedReplay(session_id, start_time, insights) ==
    LET metadata == [SynthesizedMetadata(session_id, <<>>) EXCEPT
                        !.start_time = start_time]
    IN  [metadata |-> metadata,
         timeline |-> <<>>,
         insights |-> insights,
         key_decision_indices |-> <<>>,
         turning_point_indices |-> <<>>,
         statistics |-> compute_statistics(<<>>, metadata)]

\* a store in which every session is indexed or not, with one of two start
\* times, and has a stored replay or not; and a limit, which may be negative
InitLearnings ==
    /\ store_events = [s \in SessionIds |-> <<>>]
    /\ now = 0
    /\ runs = [s \in SessionIds |-> <<>>]
    /\ \E start \in [SessionIds -> {<<>>, <<0>>, <<Tick>>}] :
       \E stored \in [SessionIds ->
                         {<<>>} \cup {<<l>> : l \in SeqsUpTo(LearnedInsights, MaxLearned)}] :
          LET replay(s) == LearnedReplay(s, IF start[s] = <<>> THEN 0 ELSE start[s][1],
                                         IF stored[s] = <<>> THEN <<>> ELSE stored[s][1])
          IN  /\ store_metadata = [s \in SessionIds |->
                    IF start[s] = <<>> THEN NoRecord
                    ELSE [json |-> MetadataJson(replay(s).metadata)]]
              /\ store_index = [s \in SessionIds |->
                    IF start[s] = <<>> THEN NoRecord
                    ELSE MetadataJson(replay(s).metadata)]
              /\ store_replay = [s \in SessionIds |->
                    IF stored[s] = <<>> THEN NoRecord ELSE ReplayDump(replay(s))]
    /\ \E limit \in -1..MaxLimit :
          arg = [fn |-> "aggregate_learnings", limit |-> limit]
    /\ ret = NoRet

AggregateLearnings ==
    \E learnings \in aggregate_learnings(arg.limit) :
        Apply("aggregate_learnings", "aggregate_learnings", learnings)

SpecLearnings ==
    InitLearnings /\ [][AggregateLearnings]_vars

\* the sessions can have been visited in this order under the limit: they are
\* indexed sessions, no more than the limit, each once, the more recent first,
\* and no session that is left out is more recent than a visited one
VisitedInOrder(visited, limit) ==
    LET indexed == {s \in SessionIds : store_index[s] # NoRecord}
        started(s) == fromisoformat(store_index[s].start_time)
    IN  /\ Len(visited) <= limit
        /\ Range(visited) \subseteq indexed
        /\ \A i, j \in DOMAIN visited : i < j =>
              /\ visited[i] # visited[j]
              /\ started(visited[i]) >= started(visited[j])
        /\ \A s \in indexed \ Range(visited) :
              /\ Len(visited) = limit
              /\ \A i \in DOMAIN visited : started(visited[i]) >= started(s)

\* the insights of the stored replays of the visited sessions, as they are met
Met(visited) ==
    Concat([k \in DOMAIN visited |->
               IF get_replay(visited[k]) # NoRecord
               THEN get_replay(visited[k]).insights
               ELSE <<>>])

\* the learnings are the first met insight of every title, the titles taken
\* lower-cased and trimmed, by non-increasing confidence, the ones of one
\* confidence in the order they were met
LearningsOf(learnings, met) ==
    LET key(insight) == Strip(Lower(insight.title))
        first(k) == CHOOSE j \in DOMAIN met :
                        /\ key(met[j]) = k
                        /\ \A i \in 1..(j - 1) : key(met[i]) # k
    IN  /\ {key(learnings[i]) : i \in DOMAIN learnings}
              = {key(met[j]) : j \in DOMAIN met}
        /\ \A i \in DOMAIN learnings : learnings[i] = met[first(key(learnings[i]))]
        /\ \A i, j \in DOMAIN learnings : i < j =>
              /\ key(learnings[i]) # key(learnings[j])
              /\ learnings[i].confidence >= learnings[j].confidence
              /\ learnings[i].confidence = learnings[j].confidence =>
                    first(key(learnings[i])) < first(key(learnings[j]))

\* C17: aggregate_learnings(store, limit) visits at most `limit` indexed
\* sessions, the most recent start_time first, skips the sessions without a
\* stored replay and returns one insight for every distinct lower-cased,
\* trimmed title of the insights of the visited replays, the first one met
\* in visiting order, by non-increasing confidence, ties in first-met order.
C17_Learnings ==
    ret # NoRet =>
        \E visited \in UNION {Orders(S) : S \in SUBSET SessionIds} :
            /\ VisitedInOrder(visited, arg.limit)
            /\ LearningsOf(ret.value, Met(visited))

\* C17 for the limits that are no negative number
C17_LearningsOfNaturalLimit ==
    arg.fn = "aggregate_learnings" /\ arg.limit >= 0 => C17_Learnings

\* two indexed sessions with stored replays were visited under a limit of 2;
\* the more recent one holds " hot " with confidence 0.5 and "Cold", the
\* older one "Hot" with confidence 0.9: the learnings are " hot " and "Cold"
C17_NaturalLimit_Witness ==
    /\ ret # NoRet
    /\ arg.limit = 2
    /\ \A s \in SessionIds : store_index[s] # NoRecord /\ get_replay(s) # NoRecord
    /\ store_index["s1"].start_time # store_index["s2"].start_time
    /\ Len(ret.value) = 2
    /\ ret.value[1].title = <<" ", "h", "o", "t", " ">>
    /\ ret.value[2].title = <<"C", "o", "l", "d">>
    /\ \E s \in SessionIds : \E k \in DOMAIN get_replay(s).insights :
          get_replay(s).insights[k].title = <<"H", "o", "t">>

\* ---------------------------------------------------------------------------
\* analyze_session over stores with damaged records

\* the largest number of lines of a damaged events.jsonl
MaxLines ==
    3

\* the first session has a log of lines that are events, text that is no
\* event, or bytes that are no text; its metadata.json and replay.json are
\* missing, damaged in one of these two ways, or (the metadata) as written
\* by an earlier analysis; nothing is stored for the other session
InitCorrupted ==
    /\ \E n \in 0..MaxLines :
       \E lines \in [1..n -> MainKinds \cup {Garbage, Undecodable}] :
          /\ store_events = [s \in SessionIds |->
                IF s = CapturedSession
                THEN [k \in 1..n |->
                        IF lines[k] \in MainKinds
                        THEN EventDump(Event(k * Tick, s, lines[k].event_type,
                                             lines[k].tool_name, lines[k].summary,
                                             lines[k].files_affected))
                        ELSE lines[k]]
                ELSE <<>>]
          /\ now = (n + 1) * Tick
    /\ \E metadata \in {NoRecord, Garbage, Undecodable,
                         [json |-> MetadataJson(
                             [SynthesizedMetadata(CapturedSession, <<>>) EXCEPT
                                 !.start_time = 0,
                                 !.summary = [NoSummary EXCEPT !.errors = 1]])]} :
          /\ store_metadata = [s \in SessionIds |->
                IF s = CapturedSession THEN metadata ELSE NoRecord]
          /\ store_index = [s \in SessionIds |->
                IF s = CapturedSession /\ Validates(metadata)
                THEN metadata.json ELSE NoRecord]
    /\ \E replay \in {NoRecord, Garbage, Undecodable} :
          store_replay = [s \in SessionIds |->
                IF s = CapturedSession THEN replay ELSE NoRecord]
    /\ runs = [s \in SessionIds |-> <<>>]
    /\ arg = NoArg
    /\ ret = NoRet

AnalyzeStored ==
    \E s \in SessionIds : analyze_session(s)

SpecCorrupted ==
    InitCorrupted /\ [][AnalyzeStored]_vars

\* the k-th of the lines of the log of the session that are events
ParseableLine(session_id, k) ==
    LET parseable == {i \in DOMAIN store_events[session_id] :
                         \E event \in Range(get_events(session_id)) :
                             store_events[session_id][i] = EventDump(event)}
    IN  CHOOSE i \in parseable : Cardinality({j \in parseable : j <= i}) = k

\* what the store returns for the session: the events of the parseable lines
\* in the order of the lines, and no metadata and no replay for a record that
\* does not parse; the analysis can be run
ReadsAsAbsent(session_id) ==
    /\ ~GetEventsRaises(session_id)
    /\ Len(get_events(session_id))
          = Cardinality({i \in DOMAIN store_events[session_id] :
                            Validates(store_events[session_id][i])})
    /\ \A k \in DOMAIN get_events(session_id) :
          EventDump(get_events(session_id)[k])
              = store_events[session_id][ParseableLine(session_id, k)]
    /\ store_events[session_id] = <<>> => get_events(session_id) = <<>>
    /\ store_metadata[session_id] \in {Garbage, Undecodable}
          => get_metadata(session_id) = NoRecord
    /\ store_replay[session_id] \in {Garbage, Undecodable}
          => get_replay(session_id) = NoRecord
    /\ AnalyzedReplays(session_id, get_events(session_id),
                       get_metadata(session_id)) # {}

\* the analysis of the session has returned the replay of the events that
\* parse, with a synthesized metadata when none was found
AnalyzedRemaining(session_id) ==
    Analyzed(session_id) =>
        LET replay == Returned(session_id)'
            events == get_events(session_id)
        IN  /\ replay.statistics.total_events = Len(events)
            /\ replay.metadata.event_count = Len(events)
            /\ replay.timeline
                  = generate_phase_summaries(identify_phase_runs(events), events)
            /\ get_metadata(session_id) = NoRecord =>
                  /\ replay.metadata.session_id = session_id
                  /\ replay.metadata.start_time
                        = IF events # <<>> THEN events[1].timestamp ELSE now
                  /\ replay.metadata.tags = <<>>
            /\ get_replay(session_id)' = replay

\* C18: the store treats a corrupted record as absent and never raises:
\* get_events returns the events of the parseable lines in the order they
\* were appended, skipping the other lines (and nothing for an unknown
\* session), get_metadata and get_replay return None for a record that does
\* not parse, and analyze_session then completes on the remaining events,
\* synthesizing the metadata when none is found.
C18_CorruptedRecords ==
    /\ [](\A s \in SessionIds : ReadsAsAbsent(s))
    /\ [][\A s \in SessionIds : AnalyzedRemaining(s)]_vars

\* C18 for the sessions whose events.jsonl is text
C18_DecodableLog ==
    /\ [](\A s \in SessionIds : ~GetEventsRaises(s) => ReadsAsAbsent(s))
    /\ [][\A s \in SessionIds : AnalyzedRemaining(s)]_vars

\* a log of three lines whose second is no event was analyzed with damaged
\* metadata and replay records: the replay of the two remaining events, with
\* a synthesized metadata, is stored
C18_DecodableLog_Witness ==
    /\ Len(store_events[CapturedSession]) = 3
    /\ store_events[CapturedSession][2] = Garbage
    /\ Len(get_events(CapturedSession)) = 2
    /\ runs[CapturedSession] # <<>>
    /\ Returned(CapturedSession).statistics.total_events = 2
    /\ Returned(CapturedSession).metadata.start_time = Tick
    /\ get_replay(CapturedSession) = Returned(CapturedSession)

\* ---------------------------------------------------------------------------
\* _format_duration over whole numbers of seconds

\* the longest duration that is formatted, past two hours
MaxSeconds ==
    7300

InitDuration ==
    /\ EmptyStore
    /\ \E seconds \in 0..MaxSeconds :
          arg = [fn |-> "_format_duration", seconds |-> seconds]
    /\ ret = NoRet

FormatDuration ==
    Apply("_format_duration", "_format_duration", format_duration(arg.seconds))

SpecDuration ==
    InitDuration /\ [][FormatDuration]_vars

\* the text of a duration of s seconds, as its parts
DurationText(s, text) ==
    /\ s < 60 => text = <<s, "s">>
    /\ s >= 60 /\ s < 3600 =>
          \E m \in 0..59 : \E r \in 0..59 :
              /\ s = 60 * m + r
              /\ text = <<m, "m ", r, "s">>
    /\ s >= 3600 =>
          \E h \in 1..(s \div 3600) : \E m \in 0..59 :
              /\ 3600 * h + 60 * m <= s
              /\ s < 3600 * h + 60 * m + 60
              /\ text = <<h, "h ", m, "m">>
    /\ s = 59 => text = <<59, "s">>
    /\ s = 60 => text = <<1, "m ", 0, "s">>
    /\ s = 3599 => text = <<59, "m ", 59, "s">>
    /\ s = 3600 => text = <<1, "h ", 0, "m">>

\* C19: for a whole number s >= 0 of seconds, _format_duration returns "{s}s"
\* when s < 60, "{m}m {r}s" with m = s div 60 and r = s mod 60 (both below 60)
\* when 60 <= s < 3600, and "{h}h {m}m" with h = s div 3600 and
\* m = (s mod 3600) div 60 (below 60) when s >= 3600; 59 gives "59s", 60 gives
\* "1m 0s", 3599 gives "59m 59s" and 3600 gives "1h 0m".
C19_FormatDuration ==
    ret # NoRet /\ ret.fn = "_format_duration" =>
        DurationText(arg.seconds, ret.value)

\* the last duration of the minutes form was formatted
C19_Witness ==
    /\ ret # NoRet
    /\ arg.fn = "_format_duration"
    /\ arg.seconds = 3599
    /\ ret.value = <<59, "m ", 59, "s">>

\* ---------------------------------------------------------------------------
\* Blip suppression of the run builder, over the inputs of SpecRunBuilder

\* the positions whose label the run builder has overwritten, each with the
\* label it was given: the positions inside a raw run that the classifier
\* labels otherwise than the run
Overwritten(events) ==
    LET raw == RawRuns(events)
        phases == EventPhases(events)
    IN  {<<p[2], raw[p[1]].phase>> :
            p \in {p \in (DOMAIN raw) \X (0..(Len(events) - 1)) :
                      /\ raw[p[1]].start_index <= p[2]
                      /\ p[2] <= raw[p[1]].end_index
                      /\ At(phases, p[2]) # raw[p[1]].phase}}

\* the positions at which a raw run starts after a label change, each with
\* the label of the run before
Started(events) ==
    LET raw == RawRuns(events)
    IN  {<<raw[k].start_index, raw[k - 1].phase>> : k \in 2..Len(raw)}

\* the number of events right after position i, among the next two, that
\* carry the label
Carrying(events, i, label) ==
    LET labelled(j) == j <= Len(events) - 1 /\ At(EventPhases(events), j) = label
    IN  IF ~labelled(i + 1) THEN 0 ELSE IF ~labelled(i + 2) THEN 1 ELSE 2

\* C20: when the run builder overwrites the label at a position i where the
\* label changes, instead of starting a raw run there, at least 2 consecutive
\* events after i, among the next positions, carry the label from before the
\* change; a change followed by fewer than 2 such events starts a raw run.
C20_BlipSuppression ==
    (ret.fn = "_identify_phase_runs" /\ arg.events # <<>>) =>
        \A blip \in Overwritten(arg.events) :
            Carrying(arg.events, blip[1], blip[2]) >= 2

\* C20 as the look-ahead of lines 108-116 decides: the label at i is
\* overwritten exactly when the next two events carry the label from before
\* the change or, at the last position but one, when the last event does
C20_LookAhead ==
    (ret.fn = "_identify_phase_runs" /\ arg.events # <<>>) =>
        LET n == Len(arg.events)
            blip(i, label) ==
                \/ Carrying(arg.events, i, label) = 2
                \/ i = n - 2 /\ Carrying(arg.events, i, label) = 1
        IN  /\ \A p \in Overwritten(arg.events) : blip(p[1], p[2])
            /\ \A p \in Started(arg.events) : ~blip(p[1], p[2])

\* in a session of six events the label of the last event but one was
\* overwritten with only the last event carrying the label before the
\* change, and an earlier label was overwritten with two such events behind it
C20_LookAhead_Witness ==
    /\ ret.fn = "_identify_phase_runs"
    /\ Len(arg.events) = 6
    /\ \E p \in Overwritten(arg.events) :
          p[1] = 4 /\ Carrying(arg.events, 4, p[2]) = 1
    /\ \E p \in Overwritten(arg.events) :
          p[1] < 4 /\ Carrying(arg.events, p[1], p[2]) = 2

\* ---------------------------------------------------------------------------
\* The runs of the returned timeline, over the inputs of SpecRunBuilder

\* no two adjacent runs carry the same phase label
Maximal(rs) ==
    \A k \in 1..(Len(rs) - 1) : rs[k].phase # rs[k + 1].phase

\* C21: every run of the timeline returned by _identify_phase_runs is
\* maximal: no two adjacent runs carry the same phase label, also after the
\* merges of the cap enforcement.
C21_MaximalRuns ==
    ret.fn = "_identify_phase_runs" => Maximal(ret.value)

\* C21 for the timelines that the cap enforcement leaves as they are: the
\* runs are maximal after the merge of adjacent runs of one label
C21_MaximalBeforeCap ==
    (ret.fn = "_identify_phase_runs" /\ arg.events # <<>>) =>
        LET consolidated == Consolidate(Absorb(RawRuns(arg.events)))
        IN  /\ Maximal(consolidated)
            /\ Len(consolidated) <= MaxPhases(consolidated) => Maximal(ret.value)

\* a timeline of several runs, two of which were merged because they carried
\* one label after a tiny run between them was absorbed
C21_MaximalBeforeCap_Witness ==
    /\ ret.fn = "_identify_phase_runs"
    /\ arg.events # <<>>
    /\ Len(ret.value) >= 2
    /\ Len(Consolidate(Absorb(RawRuns(arg.events)))) < Len(Absorb(RawRuns(arg.events)))
    /\ Len(ret.value) = Len(Consolidate(Absorb(RawRuns(arg.events))))

\* the run has fewer than 3 events or spans less than 120 s
Tiny(run) ==
    \/ run.event_count < 3
    \/ run.end_time - run.start_time < 120

\* the runs `merged` are the raw runs with every tiny run but the first
\* absorbed into the run before it: each starts at the first raw run or at a
\* raw run that is not tiny, carries its label, and reaches to the raw run
\* before the next such run
AbsorbedFrom(merged, raw) ==
    LET kept == {1} \cup {k \in 2..Len(raw) : ~Tiny(raw[k])}
        nth(j) == CHOOSE k \in kept : Cardinality({i \in kept : i <= k}) = j
        last(j) == IF j = Cardinality(kept) THEN Len(raw) ELSE nth(j + 1) - 1
    IN  /\ Len(merged) = Cardinality(kept)
        /\ \A j \in DOMAIN merged :
              /\ merged[j].phase = raw[nth(j)].phase
              /\ merged[j].start_index = raw[nth(j)].start_index
              /\ merged[j].start_time = raw[nth(j)].start_time
              /\ merged[j].end_index = raw[last(j)].end_index
              /\ merged[j].end_time = raw[last(j)].end_time
              /\ merged[j].event_count
                    = merged[j].end_index - merged[j].start_index + 1

\* C22: scanning the raw runs left to right, a run is absorbed into the run
\* before it exactly when there is one and the run has fewer than 3 events or
\* spans less than 120 s; the merged run keeps the label of the run before,
\* and the first run is never absorbed. A run of exactly 3 events spanning
\* exactly 120 s stays: 3 reads at minutes 0-2 and 3 edits at minutes 3-5
\* give an exploration run and an implementation run.
C22_Absorption ==
    (ret.fn = "_identify_phase_runs" /\ arg.events # <<>>) =>
        /\ AbsorbedFrom(Absorb(RawRuns(arg.events)), RawRuns(arg.events))
        /\ arg.events = ToolEvents(<<"Read", "Read", "Read", "Edit", "Edit", "Edit">>, 60)
              => /\ Len(ret.value) = 2
                 /\ ret.value[1].phase = "exploration"
                 /\ ret.value[1].end_index = 2
                 /\ ret.value[2].phase = "implementation"
                 /\ ret.value[2].start_index = 3

\* a session in which a tiny run that is not the first was absorbed before
\* the end of the timeline, and a run of exactly 3 events spanning exactly
\* 120 s, not the first, stayed a run of its own
C22_Witness ==
    /\ ret.fn = "_identify_phase_runs"
    /\ arg.events # <<>>
    /\ LET raw == RawRuns(arg.events)
           merged == Absorb(raw)
       IN  /\ Len(merged) < Len(raw)
           /\ \E j \in 2..Len(merged) :
                 /\ merged[j].event_count = 3
                 /\ merged[j].end_time - merged[j].start_time = 120
           /\ \E k \in 2..Len(raw) : \E j \in 2..Len(merged) :
                 /\ Tiny(raw[k])
                 /\ merged[j].end_index > raw[k].end_index

\* ---------------------------------------------------------------------------
\* The cap enforcement of _identify_phase_runs, one iteration of its loop at a
\* time. While the loop runs, ret holds the
\* local variables consolidated and max_phases and counts the iterations.

\* the fewest blocks of a session that is drawn for the loop
MinCapBlocks ==
    5

\* the session of blocks of sizes[b] calls of one tool, Read, Edit and Bash in
\* turn, one call every `step` seconds, and the runs with which its loop is
\* entered (lines 97-178)
CapConsolidated(sizes, step) ==
    LET events == <<>> \o ToolEvents(BlockTools(sizes, <<"Read", "Edit", "Bash">>),
                                     step)
    IN  Consolidate(Absorb(RawRuns(events)))

\* lines 97-184, for sessions of MinCapBlocks to MaxBlocks blocks of 3 or 4
\* calls, 60 s or 150 s apart (no block is absorbed or merged with the next):
\* the loop is entered with the runs of the session and its cap. The session
\* is kept in arg as the sizes of its blocks and its step.
InitCap ==
    /\ EmptyStore
    /\ \E n \in MinCapBlocks..MaxBlocks : \E sizes \in [1..n -> {3, 4}] :
       \E step \in {60, 150} :
          arg = [fn |-> "_identify_phase_runs", sizes |-> sizes, step |-> step]
    /\ LET consolidated == CapConsolidated(arg.sizes, arg.step)
       IN  ret = [fn |-> "while", consolidated |-> consolidated,
                  max_phases |-> MaxPhases(consolidated), iterations |-> 0]

\* an iteration that merges two pairs of runs
CapIterationTwice ==
    /\ ret.fn = "while"
    /\ Len(ret.consolidated) > ret.max_phases
    /\ ret' = [ret EXCEPT !.consolidated = CapStep(CapStep(@)), !.iterations = @ + 1]
    /\ UNCHANGED <<arg, store_vars>>

\* lines 185-211: the loop condition holds and the body is run once
CapIteration ==
    /\ ret.fn = "while"
    /\ Len(ret.consolidated) > ret.max_phases
    /\ ret' = [ret EXCEPT !.consolidated = CapStep(@), !.iterations = @ + 1]
    /\ UNCHANGED <<arg, store_vars>>

\* lines 185 and 213: the loop condition fails and the runs are returned
CapReturn ==
    /\ ret.fn = "while"
    /\ Len(ret.consolidated) <= ret.max_phases
    /\ ret' = [ret EXCEPT !.fn = "return"]
    /\ UNCHANGED <<arg, store_vars>>

NextCap ==
    \/ CapIteration
    \/ CapReturn

SpecCap ==
    InitCap /\ [][NextCap]_vars

\* the function runs on: a call that can take a step takes one
FairSpecCap ==
    SpecCap /\ WF_vars(NextCap)

\* `after` is `before` with the run m, one with the fewest events, merged
\* with its only neighbour when it is the first or the last run, and else with
\* the neighbour with fewer events, the left one on a tie; the merged run
\* spans both, counts the events of both and carries the label of the one
\* with more events, of the left one on a tie
MergedAt(before, after, m) ==
    LET n == Len(before)
        w == IF m = 1 THEN 2
             ELSE IF m = n THEN n - 1
             ELSE IF before[m - 1].event_count <= before[m + 1].event_count
                  THEN m - 1 ELSE m + 1
        a == Min(m, w)
        pa == before[a]
        pb == before[a + 1]
    IN  /\ \A k \in 1..n : before[m].event_count <= before[k].event_count
        /\ Len(after) = n - 1
        /\ \A k \in 1..(a - 1) : after[k] = before[k]
        /\ \A k \in (a + 1)..(n - 1) : after[k] = before[k + 1]
        /\ after[a].start_index = pa.start_index
        /\ after[a].start_time = pa.start_time
        /\ after[a].end_index = pb.end_index
        /\ after[a].end_time = pb.end_time
        /\ after[a].event_count = pa.event_count + pb.event_count
        /\ pa.event_count > pb.event_count => after[a].phase = pa.phase
        /\ pa.event_count < pb.event_count => after[a].phase = pb.phase
        /\ pa.event_count = pb.event_count => after[a].phase = pa.phase

\* C23: while the run count exceeds the cap, each iteration picks the run
\* with the fewest events, merges it with its only neighbour when it is the
\* first or last run and otherwise with the neighbour that has fewer events
\* (the left one on a tie), and gives the merged run the label of the one of
\* the two that had more events (the left one on a tie); the merged run spans
\* both runs and its event_count is the sum of theirs.
C23_CapStep ==
    [][(ret.fn = "while" /\ ret'.fn = "while") =>
          /\ Len(ret.consolidated) > ret.max_phases
          /\ \E m \in DOMAIN ret.consolidated :
                MergedAt(ret.consolidated, ret'.consolidated, m)]_vars

\* the loop has merged a run that was neither the first nor the last with
\* its right neighbour, which had fewer events than the left one, and has
\* given a merged run the label of its right part
C23_Witness ==
    /\ ret.fn = "while"
    /\ ret.iterations >= 2
    /\ LET first == CapConsolidated(arg.sizes, arg.step)
           second == CapStep(first)
       IN  \E before \in {first, second} :
              LET m == MinIdx(before) + 1
              IN  /\ m > 1
                  /\ m < Len(before)
                  /\ before[m + 1].event_count < before[m - 1].event_count
                  /\ CapStep(before)[m].phase = before[m + 1].phase
                  /\ before[m + 1].phase # before[m].phase

\* C24: the cap-enforcement loop terminates for every input, also when all
\* runs have the same event count: every iteration reduces the number of runs
\* by exactly one, so from k > cap runs it stops after exactly k - cap
\* iterations with exactly cap runs.
C24_CapTerminates ==
    /\ <>(ret.fn = "return")
    /\ [][(ret.fn = "while" /\ ret'.fn = "while") =>
             Len(ret'.consolidated) = Len(ret.consolidated) - 1]_vars
    /\ [](ret.fn = "return" =>
             LET k == Len(CapConsolidated(arg.sizes, arg.step))
             IN  IF k > ret.max_phases
                 THEN /\ ret.iterations = k - ret.max_phases
                      /\ Len(ret.consolidated) = ret.max_phases
                 ELSE /\ ret.iterations = 0
                      /\ Len(ret.consolidated) = k)

\* the loop was entered with nine runs of three events each and a cap of six,
\* and has returned six runs after three iterations
C24_Witness ==
    /\ ret.fn = "return"
    /\ ret.iterations = 3
    /\ ret.max_phases = 6
    /\ Len(ret.consolidated) = 6
    /\ LET first == CapConsolidated(arg.sizes, arg.step)
       IN  /\ Len(first) = 9
           /\ \A k \in DOMAIN first : first[k].event_count = 3

\* C25: _extract_insights never returns both a 'Read-heavy session' and an
\* 'Implementation-heavy session' insight for one event sequence.
C25_NotBothHeavy ==
    ret.fn = "_extract_insights" =>
        \/ Titled(ret.value, "Read-heavy session") = {}
        \/ Titled(ret.value, "Implementation-heavy session") = {}

\* a session of more than 5 tool events, some of them edits, found read-heavy,
\* and one of more than 5 tool events, some of them reads, found
\* implementation-heavy
C25_Witness ==
    /\ ret.fn = "_extract_insights"
    /\ Len(arg.events) > WRITE_HEAVY_MIN_TOTAL
    /\ UsingTool(arg.events, {"Edit", "Write"}) # {}
    /\ UsingTool(arg.events, {"Read", "Grep", "Glob"}) # {}
    /\ \/ Titled(ret.value, "Read-heavy session") # {}
       \/ Titled(ret.value, "Implementation-heavy session") # {}

\* C26: for a non-empty event sequence with non-decreasing timestamps whose
\* last timestamp is less than 120 s after the first, the timeline is exactly
\* one run that covers all the events and carries the classified phase of the
\* first event.
C26_ShortSession ==
    (/\ ret.fn = "_identify_phase_runs"
     /\ arg.events # <<>>
     /\ \A k \in 1..(Len(arg.events) - 1) :
           arg.events[k].timestamp <= arg.events[k + 1].timestamp
     /\ arg.events[Len(arg.events)].timestamp - arg.events[1].timestamp
           < ABSORB_MIN_SECONDS) =>
        /\ Len(ret.value) = 1
        /\ ret.value[1].start_index = 0
        /\ ret.value[1].end_index = Len(arg.events) - 1
        /\ ret.value[1].event_count = Len(arg.events)
        /\ ret.value[1].phase = detect_phase_from_event(arg.events[1])

\* a session of 100 s whose events are of three phases, built into several
\* runs of which one has 3 events, all of them absorbed into the first
C26_Witness ==
    /\ ret.fn = "_identify_phase_runs"
    /\ Len(arg.events) = 6
    /\ arg.events[6].timestamp - arg.events[1].timestamp = 100
    /\ Cardinality({detect_phase_from_event(arg.events[k]) : k \in 1..6}) = 3
    /\ \E k \in 2..Len(RawRuns(arg.events)) :
          RawRuns(arg.events)[k].event_count = 3
    /\ Len(ret.value) = 1

\* C27: analyze_session is idempotent on an unchanged log: a run that follows
\* a run over the same events of the session returns a replay equal to the
\* first in every field, the metadata with its start_time, end_time,
\* event_count, summary, project, files_modified and tools_used included, and
\* leaves the stored metadata and the stored replay as they were.
C27_Idempotent ==
    /\ [](\A s \in SessionIds : Len(runs[s]) = 2 => runs[s][1] = runs[s][2])
    /\ [][\A s \in SessionIds :
             (Analyzed(s) /\ runs[s] # <<>>) =>
                 /\ Returned(s)' = Returned(s)
                 /\ get_metadata(s)' = get_metadata(s)
                 /\ get_replay(s)' = get_replay(s)
                 /\ store_metadata'[s] = store_metadata[s]
                 /\ store_replay'[s] = store_replay[s]]_vars

\* a session of three events, analyzed before it had them all, was analyzed
\* twice since: the replays carry a summary, a project, files and tools
C27_Witness ==
    \E s \in SessionIds :
        /\ Len(runs[s]) = 2
        /\ Len(get_events(s)) = 3
        /\ runs[s][2].metadata.event_count = 3
        /\ runs[s][2].metadata.summary # NoSummary
        /\ runs[s][2].metadata.summary \notin
              generate_session_summary(get_events(s), runs[s][2].timeline)
        /\ runs[s][2].metadata.project # ""
        /\ runs[s][2].metadata.files_modified # <<>>
        /\ runs[s][2].metadata.tools_used # <<>>
        /\ runs[s][2].metadata.end_time # NoNumber
        /\ get_replay(s) = runs[s][2]

\* ---------------------------------------------------------------------------
\* The commands that show a session (cli.py show, replay, export; mcp_server.py
\* _get_session_summary) and the command that analyzes it (cli.py analyze),
\* run while the hooks append events. analyze_session is taken one store
\* access at a time: while it runs, arg holds its caller, its session, the
\* line it is at and its local variables; ret holds the replay the last
\* command got and the function it got it from, the events analyze_session
\* had read for it, and the number of events appended to the session while
\* it ran.
\* ---------------------------------------------------------------------------

\* store.py session_exists: the directory of the session is there, made by
\* the first write of an event, a metadata or a replay
session_exists(session_id) ==
    \/ store_events[session_id] # <<>>
    \/ store_metadata[session_id] # NoRecord
    \/ store_replay[session_id] # NoRecord

\* the commands that report the analysis of a session
QueryCommands ==
    {"show", "replay", "export", "_get_session_summary"}

\* store.py append_event, called by a hook at any time
append_event_concurrently(session_id, kind) ==
    /\ TotalEvents < MaxEvents
    /\ now' = now + Tick
    /\ store_events' =
          [store_events EXCEPT ![session_id] =
              Append(@, EventDump(Event(now', session_id, kind.event_type,
                                        kind.tool_name, kind.summary,
                                        kind.files_affected)))]
    /\ UNCHANGED <<store_metadata, store_index, store_replay, arg, ret, runs>>

\* a command that analyzes the session whether or not a replay is stored
CommandAlwaysAnalyzing(command, session_id) ==
    /\ arg = NoArg
    /\ session_exists(session_id)
    /\ ~GetEventsRaises(session_id)
    /\ arg' = [fn |-> command, session_id |-> session_id,
               line |-> "get_metadata", events |-> get_events(session_id)]
    /\ UNCHANGED <<store_events, store_metadata, store_index, store_replay,
                   now, ret, runs>>

\* a command on an existing session: a query returns the stored replay when
\* there is one; else, and for analyze, analyze_session is called and reads
\* the events (analyzer.py line 536)
Command(command, session_id) ==
    /\ arg = NoArg
    /\ session_exists(session_id)
    /\ IF command \in QueryCommands /\ get_replay(session_id) # NoRecord
       THEN /\ ret' = [fn |-> "get_replay", session_id |-> session_id,
                       value |-> get_replay(session_id),
                       events |-> <<>>, appended |-> 0]
            /\ arg' = arg
       ELSE /\ ~GetEventsRaises(session_id)
            /\ arg' = [fn |-> command, session_id |-> session_id,
                       line |-> "get_metadata",
                       events |-> get_events(session_id)]
            /\ ret' = ret
    /\ UNCHANGED <<store_events, store_metadata, store_index, store_replay,
                   now, runs>>

\* an analysis that takes the events from the log once more when it has read
\* the metadata
AnalyzeGetMetadataRereading ==
    /\ arg # NoArg
    /\ arg.line = "get_metadata"
    /\ \E replay \in AnalyzedReplays(arg.session_id, get_events(arg.session_id),
                                     get_metadata(arg.session_id)) :
          arg' = [fn |-> arg.fn, session_id |-> arg.session_id,
                  line |-> "save_metadata", events |-> arg.events,
                  replay |-> replay]
    /\ UNCHANGED <<store_events, store_metadata, store_index, store_replay,
                   now, ret, runs>>

\* analyzer.py lines 537-603: the metadata is read and the replay is built
\* from it and from the events that were read
AnalyzeGetMetadata ==
    /\ arg # NoArg
    /\ arg.line = "get_metadata"
    /\ \E replay \in AnalyzedReplays(arg.session_id, arg.events,
                                     get_metadata(arg.session_id)) :
          arg' = [fn |-> arg.fn, session_id |-> arg.session_id,
                  line |-> "save_metadata", events |-> arg.events,
                  replay |-> replay]
    /\ UNCHANGED <<store_events, store_metadata, store_index, store_replay,
                   now, ret, runs>>

\* analyzer.py line 593
AnalyzeSaveMetadata ==
    /\ arg # NoArg
    /\ arg.line = "save_metadata"
    /\ save_metadata(arg.replay.metadata)
    /\ arg' = [arg EXCEPT !.line = "save_replay"]
    /\ UNCHANGED <<store_events, store_replay, now, ret, runs>>

\* analyzer.py lines 605-607: the replay is saved and returned
AnalyzeSaveReplay ==
    /\ arg # NoArg
    /\ arg.line = "save_replay"
    /\ save_replay(arg.replay)
    /\ ret' = [fn |-> "analyze_session", session_id |-> arg.session_id,
               value |-> arg.replay, events |-> arg.events,
               appended |-> Len(store_events[arg.session_id]) - Len(arg.events)]
    /\ arg' = NoArg
    /\ UNCHANGED <<store_events, store_metadata, store_index, now, runs>>

NextCommands ==
    \/ \E c \in Captured : append_event_concurrently(c[1], c[2])
    \/ \E command \in QueryCommands \cup {"analyze"} : \E s \in SessionIds :
          Command(command, s)
    \/ AnalyzeGetMetadata
    \/ AnalyzeSaveMetadata
    \/ AnalyzeSaveReplay

SpecCommands ==
    Init /\ [][NextCommands]_vars

\* C28: analyze_session works on the events it read once. When events are
\* appended to the session between that read and save_replay, the replay that
\* is returned and saved is the one of the events read: its
\* metadata.event_count and its statistics.total_events are their number and
\* all its indices lie below it; the appended events are in the log after the
\* events read, which keep their indices.
C28_Snapshot ==
    /\ [](arg # NoArg =>
            LET log == get_events(arg.session_id)
            IN  /\ Len(arg.events) <= Len(log)
                /\ SubSeq(log, 1, Len(arg.events)) = arg.events)
    /\ [][\A s \in SessionIds :
           (arg # NoArg /\ arg' = NoArg /\ arg.session_id = s) =>
             LET snapshot == arg.events
                 replay == ret'.value
                 log == get_events(s)'
             IN  /\ get_replay(s)' = replay
                 /\ replay.metadata.event_count = Len(snapshot)
                 /\ replay.statistics.total_events = Len(snapshot)
                 /\ replay.statistics = compute_statistics(snapshot, replay.metadata)
                 /\ replay.timeline =
                       generate_phase_summaries(identify_phase_runs(snapshot),
                                                snapshot)
                 /\ replay.insights = extract_insights(snapshot)
                 /\ ValidIndices(replay, snapshot)
                 /\ \A k \in 1..Len(replay.timeline) :
                       /\ replay.timeline[k].start_index \in 0..(Len(snapshot) - 1)
                       /\ replay.timeline[k].end_index \in 0..(Len(snapshot) - 1)
                 /\ log = get_events(s)
                 /\ Len(log) = Len(snapshot) + ret'.appended
                 /\ SubSeq(log, 1, Len(snapshot)) = snapshot]_vars

\* an analysis of a session of one event has returned after two events, one
\* of them an error, were appended while it ran; the stored replay is the one
\* of the one event
C28_Witness ==
    /\ arg = NoArg
    /\ ret.fn = "analyze_session"
    /\ Len(ret.events) = 1
    /\ ret.appended = 2
    /\ Len(get_events(ret.session_id)) = 3
    /\ \E k \in 2..3 : get_events(ret.session_id)[k].event_type = "error"
    /\ get_replay(ret.session_id) = ret.value
    /\ ret.value.metadata.event_count = 1
    /\ ret.value.statistics.errors_encountered = 0

\* C29: show, replay, export and the session-summary tool run analyze_session
\* only when no replay of the session is stored; when one is stored they
\* return it as it is and write nothing. A stored replay is replaced only by
\* the analyze command, so that after events were appended the queries go on
\* reporting the replay of the shorter session.
C29_StoredReplayReported ==
    /\ [][\A s \in SessionIds :
             (arg = NoArg /\ get_replay(s) # NoRecord) =>
                 /\ (ret' # ret /\ ret'.session_id = s) =>
                       /\ ret'.fn = "get_replay"
                       /\ ret'.value = get_replay(s)
                       /\ arg' = NoArg
                       /\ <<store_events, store_metadata, store_index, store_replay>>'
                             = <<store_events, store_metadata, store_index,
                                 store_replay>>
                 /\ (arg' # NoArg /\ arg'.session_id = s) => arg'.fn = "analyze"]_vars
    /\ [][\A s \in SessionIds :
             (store_replay'[s] # store_replay[s] /\ get_replay(s) # NoRecord) =>
                 arg.fn = "analyze"]_vars
    /\ [](\A s \in SessionIds :
             (arg # NoArg /\ arg.session_id = s /\ arg.fn \in QueryCommands) =>
                 get_replay(s) = NoRecord)

\* a session was analyzed when it had one event; two events were appended
\* since, one of them an error, and a query has just returned the stored
\* replay of the one event
C29_Witness ==
    /\ arg = NoArg
    /\ ret.fn = "get_replay"
    /\ ret.value = get_replay(ret.session_id)
    /\ ret.value.metadata.event_count = 1
    /\ ret.value.statistics.errors_encountered = 0
    /\ Len(get_events(ret.session_id)) = 3
    /\ \E k \in 2..3 : get_events(ret.session_id)[k].event_type = "error"

\* a session of seven blocks of three events 60 s apart, the blocks being in
\* turn of events like the given one and of Read events without a summary
AlternatingSession(event) ==
    LET like == Kind(event.event_type, event.tool_name, event.summary, <<>>)
        read == Kind("tool_call", "Read", SUMMARY.Empty, <<>>)
    IN  <<>> \o KindEvents(BlockEvents(<<<<like, 3>>, <<read, 3>>, <<like, 3>>,
                                         <<read, 3>>, <<like, 3>>, <<read, 3>>,
                                         <<like, 3>>>>), 60)

\* C30: the classifier never returns refactoring, and every label of a run
\* of a returned timeline, the runs merged to keep the cap included, is one
\* of exploration, implementation, debugging, testing, configuration,
\* documentation and unknown.
C30_NoRefactoring ==
    ret.fn = "_detect_phase_from_event" =>
        LET labels == SessionPhase \ {"refactoring"}
            timeline == identify_phase_runs(AlternatingSession(arg.event))
            short == identify_phase_runs(<<arg.event>>)
        IN  /\ ret.value \in labels
            /\ \A k \in 1..Len(timeline) : timeline[k].phase \in labels
            /\ \A k \in 1..Len(short) : short[k].phase \in labels

\* an Edit event without a keyword, whose row of the table holds refactoring,
\* was classified, and the timeline of a session made of such events and of
\* reads was merged down to the cap
C30_Witness ==
    /\ ret.fn = "_detect_phase_from_event"
    /\ arg.event.tool_name = "Edit"
    /\ "refactoring" \in Range(PHASE_INDICATORS[arg.event.tool_name])
    /\ ret.value = "implementation"
    /\ LET events == AlternatingSession(arg.event)
           consolidated == Consolidate(Absorb(RawRuns(events)))
       IN  /\ Len(consolidated) > MaxPhases(consolidated)
           /\ Len(identify_phase_runs(events)) = MaxPhases(consolidated)

====
